---- MODULE Spec2Model ----
(***************************************************************************)
(* The YAML validator of the groups directory                              *)
(* (.github/scripts/validate_yaml.py): one command-line run, from argument *)
(* parsing to the exit code, with the schema resolution order, the two     *)
(* loaders, the schema walk, the fail-fast reduction, the ordering of the  *)
(* findings and the three report formats.                                  *)
(***************************************************************************)
EXTENDS Integers, Sequences, FiniteSets, TLC

(***************************************************************************)
(* Exit codes, validate_yaml.py lines 17-22.                               *)
(***************************************************************************)
EXIT_SUCCESS == 0
EXIT_BAD_ARGS == 2
EXIT_SCHEMA_ERROR == 3
EXIT_YAML_PARSE_ERROR == 4
EXIT_VALIDATION_ERROR == 5
EXIT_UNEXPECTED_ERROR == 6

(***************************************************************************)
(* Bounds of the model.                                                    *)
(***************************************************************************)
\* longest "groups" sequence of a generated document
MaxItems == 1
\* how many times the same command line is run against the same files
MaxRuns == 2

(***************************************************************************)
(* Text.  A string the program compares or orders is a sequence of         *)
(* character codes, so that Python's str ordering is the lexicographic     *)
(* order of the sequences.                                                 *)
(***************************************************************************)
TxtIsRequired == <<32, 105, 115, 32, 97, 32, 114, 101, 113, 117, 105, 114, 101, 100, 32, 112, 114, 111, 112, 101, 114, 116, 121>>
TxtIsNotOfType == <<32, 105, 115, 32, 110, 111, 116, 32, 111, 102, 32, 116, 121, 112, 101, 32>>
TxtIsNotOneOf == <<32, 105, 115, 32, 110, 111, 116, 32, 111, 110, 101, 32, 111, 102, 32>>
TxtNone == <<78, 111, 110, 101>>
TxtFailedValidating == <<70, 97, 105, 108, 101, 100, 32, 118, 97, 108, 105, 100, 97, 116, 105, 110, 103, 32>>
TxtInSchema == <<32, 105, 110, 32, 115, 99, 104, 101, 109, 97>>
TxtOnInstance == <<79, 110, 32, 105, 110, 115, 116, 97, 110, 99, 101>>
TxtCommaSpace == <<44, 32>>
TxtColonSpace == <<58, 32>>
TxtQuote == <<39>>
TxtNewline == <<10>>
TxtPathOpen == <<32, 40, 112, 97, 116, 104, 58, 32>>
TxtValidatorSep == <<59, 32, 118, 97, 108, 105, 100, 97, 116, 111, 114, 58, 32>>
TxtClose == <<41>>

AtomText ==
       ("Test" :> <<84, 101, 115, 116>>)
    @@ ("telegram" :> <<116, 101, 108, 101, 103, 114, 97, 109>>)
    @@ ("whatsapp" :> <<119, 104, 97, 116, 115, 97, 112, 112>>)
    @@ ("bogus" :> <<98, 111, 103, 117, 115>>)
    @@ ("50%" :> <<53, 48, 37>>)
    @@ ("name" :> <<110, 97, 109, 101>>)
    @@ ("platform" :> <<112, 108, 97, 116, 102, 111, 114, 109>>)
    @@ ("groups" :> <<103, 114, 111, 117, 112, 115>>)
    @@ ("age" :> <<97, 103, 101>>)
    @@ ("25" :> <<50, 53>>)
    @@ ("type" :> <<116, 121, 112, 101>>)
    @@ ("properties" :> <<112, 114, 111, 112, 101, 114, 116, 105, 101, 115>>)
    @@ ("required" :> <<114, 101, 113, 117, 105, 114, 101, 100>>)
    @@ ("items" :> <<105, 116, 101, 109, 115>>)
    @@ ("enum" :> <<101, 110, 117, 109>>)
    @@ ("string" :> <<115, 116, 114, 105, 110, 103>>)
    @@ ("object" :> <<111, 98, 106, 101, 99, 116>>)
    @@ ("array" :> <<97, 114, 114, 97, 121>>)
    @@ ("integer" :> <<105, 110, 116, 101, 103, 101, 114>>)
    @@ ("null" :> <<110, 117, 108, 108>>)
    @@ ("url" :> <<117, 114, 108>>)
    @@ ("https://t.me/a" :> <<104, 116, 116, 112, 115, 58, 47, 47, 116, 46, 109, 101, 47, 97>>)
    @@ ("https://t.me/b" :> <<104, 116, 116, 112, 115, 58, 47, 47, 116, 46, 109, 101, 47, 98>>)
    @@ ("locations" :> <<108, 111, 99, 97, 116, 105, 111, 110, 115>>)
    @@ ("continent" :> <<99, 111, 110, 116, 105, 110, 101, 110, 116>>)
    @@ ("Asia" :> <<65, 115, 105, 97>>)
    @@ ("country_id" :> <<99, 111, 117, 110, 116, 114, 121, 95, 105, 100>>)
    @@ ("ZZ" :> <<90, 90>>)
    @@ ("TH" :> <<84, 72>>)

\* Python's str < str: the first differing character decides, a proper
\* prefix is smaller.
StrLess(s, t) ==
    LET n == IF Len(s) < Len(t) THEN Len(s) ELSE Len(t)
    IN IF \E i \in 1..n : s[i] # t[i]
       THEN LET first == CHOOSE i \in 1..n :
                            /\ s[i] # t[i]
                            /\ \A j \in 1..(i - 1) : s[j] = t[j]
            IN s[first] < t[first]
       ELSE Len(s) < Len(t)

\* repr() of a str: the text between single quotes (the atoms hold no
\* quote, backslash or control character).
ReprStr(a) == TxtQuote \o AtomText[a] \o TxtQuote

(***************************************************************************)
(* Documents.  A node of the parsed YAML tree: a scalar (str, int, null),  *)
(* a mapping (keys in document order with their values) or a sequence.     *)
(***************************************************************************)
StrNode(a) == [k |-> "str", a |-> a, keys |-> <<>>, vals |-> <<>>]
IntNode(a) == [k |-> "int", a |-> a, keys |-> <<>>, vals |-> <<>>]
NullNode == [k |-> "null", a |-> "", keys |-> <<>>, vals |-> <<>>]
ObjNode(keys, vals) == [k |-> "obj", a |-> "", keys |-> keys, vals |-> vals]
ArrNode(vals) == [k |-> "arr", a |-> "", keys |-> <<>>, vals |-> vals]

\* position of key in a mapping's keys, 0 when absent ("key in instance")
KeyIndex(node, key) ==
    IF \E j \in 1..Len(node.keys) : node.keys[j] = key
    THEN CHOOSE j \in 1..Len(node.keys) : node.keys[j] = key
    ELSE 0

\* one element of an error path: a mapping key or a 0-based sequence index
Key(key) == [i |-> FALSE, key |-> key, idx |-> 0]
Idx(n) == [i |-> TRUE, key |-> "", idx |-> n]

\* repr() of a document node, as the messages embed it
RECURSIVE ReprNode(_)
RECURSIVE ReprJoin(_, _, _)
ReprJoin(node, j, isObj) ==
    IF j > Len(node.vals) THEN <<>>
    ELSE (IF j > 1 THEN TxtCommaSpace ELSE <<>>)
         \o (IF isObj THEN ReprStr(node.keys[j]) \o TxtColonSpace ELSE <<>>)
         \o ReprNode(node.vals[j])
         \o ReprJoin(node, j + 1, isObj)
ReprNode(node) ==
    CASE node.k = "str" -> ReprStr(node.a)
      [] node.k = "int" -> AtomText[node.a]
      [] node.k = "null" -> TxtNone
      [] node.k = "arr" -> <<91>> \o ReprJoin(node, 1, FALSE) \o <<93>>
      [] node.k = "obj" -> <<123>> \o ReprJoin(node, 1, TRUE) \o <<125>>

\* repr() of a list of strings (an enum's validator_value)
RECURSIVE ReprStrList(_, _)
ReprStrList(seq, j) ==
    IF j > Len(seq) THEN <<>>
    ELSE (IF j > 1 THEN TxtCommaSpace ELSE <<>>) \o ReprStr(seq[j])
         \o ReprStrList(seq, j + 1)

(***************************************************************************)
(* Schemas.  The keywords of a schema object in the order the schema file  *)
(* lists them (the walk follows that order), with the value of each:       *)
(* type, required, properties (names and subschemas), items (no or one     *)
(* subschema) and enum.                                                    *)
(***************************************************************************)
SchemaOf(kw, type, required, pnames, pschemas, items, enum) ==
    [kw |-> kw, type |-> type, required |-> required, pnames |-> pnames,
     pschemas |-> pschemas, items |-> items, enum |-> enum]
TypeSchema(type) == SchemaOf(<<"type">>, type, <<>>, <<>>, <<>>, <<>>, <<>>)
EnumSchema(enum) == SchemaOf(<<"enum">>, "", <<>>, <<>>, <<>>, <<>>, enum)

\* jsonschema's type checker for the types the schemas use
is_type(inst, type) ==
    CASE type = "object" -> inst.k = "obj"
      [] type = "array" -> inst.k = "arr"
      [] type = "string" -> inst.k = "str"
      [] type = "integer" -> inst.k = "int"
      [] type = "null" -> inst.k = "null"
      [] OTHER -> FALSE

\* One finding (jsonschema.ValidationError): absolute document path,
\* absolute schema path, keyword, message.
ValidationError(path, schema_path, validator, message) ==
    [path |-> path, schema_path |-> schema_path, validator |-> validator,
     message |-> message]

required_message(property) == ReprStr(property) \o TxtIsRequired
type_message(inst, type) == ReprNode(inst) \o TxtIsNotOfType \o ReprStr(type)
enum_message(inst, enum) ==
    ReprNode(inst) \o TxtIsNotOneOf \o <<91>> \o ReprStrList(enum, 1) \o <<93>>

\* The schema walk, Validator.iter_errors: every keyword of the schema in
\* order, every error of every keyword, nothing cut short.  "properties"
\* and "items" descend with the document path extended by the key or the
\* index; "required", "type" and "enum" report at the path they are
\* applied at.
RECURSIVE iter_errors(_, _, _, _)
RECURSIVE keyword_errors(_, _, _, _, _)
RECURSIVE properties_errors(_, _, _, _, _)
RECURSIVE items_errors(_, _, _, _, _)
RECURSIVE required_errors(_, _, _, _, _)

\* a walk whose "required" keyword reports nothing
required_errors_none(schema, inst, path, spath, j) == <<>>

required_errors(schema, inst, path, spath, j) ==
    IF j > Len(schema.required) THEN <<>>
    ELSE (IF KeyIndex(inst, schema.required[j]) = 0
          THEN <<ValidationError(path, Append(spath, Key("required")),
                                 "required",
                                 required_message(schema.required[j]))>>
          ELSE <<>>)
         \o required_errors(schema, inst, path, spath, j + 1)

properties_errors(schema, inst, path, spath, j) ==
    IF j > Len(schema.pnames) THEN <<>>
    ELSE LET property == schema.pnames[j]
             at == KeyIndex(inst, property)
         IN (IF at # 0
             THEN iter_errors(schema.pschemas[j], inst.vals[at],
                              Append(path, Key(property)),
                              spath \o <<Key("properties"), Key(property)>>)
             ELSE <<>>)
            \o properties_errors(schema, inst, path, spath, j + 1)

items_errors(schema, inst, path, spath, j) ==
    IF j > Len(inst.vals) THEN <<>>
    ELSE iter_errors(schema.items[1], inst.vals[j],
                     Append(path, Idx(j - 1)),
                     Append(spath, Key("items")))
         \o items_errors(schema, inst, path, spath, j + 1)

keyword_errors(schema, inst, path, spath, n) ==
    IF n > Len(schema.kw) THEN <<>>
    ELSE LET keyword == schema.kw[n]
             errs ==
               CASE keyword = "type" ->
                      IF is_type(inst, schema.type) THEN <<>>
                      ELSE <<ValidationError(path, Append(spath, Key("type")),
                                 "type", type_message(inst, schema.type))>>
                 [] keyword = "required" ->
                      IF inst.k # "obj" THEN <<>>
                      ELSE required_errors(schema, inst, path, spath, 1)
                 [] keyword = "properties" ->
                      IF inst.k # "obj" THEN <<>>
                      ELSE properties_errors(schema, inst, path, spath, 1)
                 [] keyword = "items" ->
                      IF inst.k # "arr" THEN <<>>
                      ELSE items_errors(schema, inst, path, spath, 1)
                 [] keyword = "enum" ->
                      IF inst.k = "str"
                         /\ \E j \in 1..Len(schema.enum) : schema.enum[j] = inst.a
                      THEN <<>>
                      ELSE <<ValidationError(path, Append(spath, Key("enum")),
                                 "enum", enum_message(inst, schema.enum))>>
                 [] OTHER -> <<>>
         IN errs \o keyword_errors(schema, inst, path, spath, n + 1)

iter_errors(schema, inst, path, spath) ==
    keyword_errors(schema, inst, path, spath, 1)

\* _utils.format_as_index: [repr(index)] for every element of a path
RECURSIVE format_as_index(_)
format_as_index(path) ==
    IF path = <<>> THEN <<>>
    ELSE <<91>>
         \o (IF Head(path).i THEN <<48 + Head(path).idx>>
             ELSE ReprStr(Head(path).key))
         \o <<93>> \o format_as_index(Tail(path))

\* str(e) of a finding: the message, an empty line, then "Failed
\* validating <keyword> in schema<schema path but its last element>:" and
\* "On instance<document path>:".  The two indented dumps that follow those
\* headers are left out: each is determined by the path printed just before
\* it, so it never decides a comparison.
error_str(e) ==
    e.message \o TxtNewline \o TxtNewline
    \o TxtFailedValidating \o ReprStr(e.validator) \o TxtInSchema
    \o format_as_index(SubSeq(e.schema_path, 1, Len(e.schema_path) - 1))
    \o <<58>> \o TxtNewline \o TxtNewline
    \o TxtOnInstance \o format_as_index(e.path) \o <<58>>

\* The sort key of line 303, (len(absolute_path), str(e)), compared as
\* Python compares tuples.
sort_key_less(a, b) ==
    \/ Len(a.path) < Len(b.path)
    \/ /\ Len(a.path) = Len(b.path)
       /\ StrLess(error_str(a), error_str(b))

\* list.sort with that key: stable, elements with equal keys keep their
\* order.  An insertion after the last element that is not greater.
RECURSIVE sort_insert(_, _)
sort_insert(sorted, e) ==
    IF sorted = <<>> THEN <<e>>
    ELSE IF sort_key_less(e, sorted[Len(sorted)])
         THEN Append(sort_insert(SubSeq(sorted, 1, Len(sorted) - 1), e),
                     sorted[Len(sorted)])
         ELSE Append(sorted, e)
\* the errors left in the order of the walk
sort_errors_none(errors) == errors

RECURSIVE sort_errors(_)
sort_errors(errors) ==
    IF errors = <<>> THEN <<>>
    ELSE sort_insert(sort_errors(SubSeq(errors, 1, Len(errors) - 1)),
                     errors[Len(errors)])

\* jsonschema.exceptions: the keywords best_match holds weak and strong
WEAK_MATCHES == {"anyOf", "oneOf"}
STRONG_MATCHES == {}

\* jsonschema.exceptions.relevance, the key best_match maximises: first the
\* negated length of the path, so the shorter path is the greater key.
relevance(e) ==
    <<0 - Len(e.path),
      IF e.validator \notin WEAK_MATCHES THEN 1 ELSE 0,
      IF e.validator \in STRONG_MATCHES THEN 1 ELSE 0>>
relevance_less(a, b) ==
    LET ka == relevance(a)
        kb == relevance(b)
    IN \/ ka[1] < kb[1]
       \/ ka[1] = kb[1] /\ ka[2] < kb[2]
       \/ ka[1] = kb[1] /\ ka[2] = kb[2] /\ ka[3] < kb[3]

\* the deepest error taken for the best
best_match_deepest(errors) ==
    LET at == CHOOSE i \in 1..Len(errors) :
                /\ \A j \in 1..Len(errors) :
                        Len(errors[j].path) <= Len(errors[i].path)
                /\ \A j \in 1..(i - 1) :
                        Len(errors[j].path) < Len(errors[i].path)
    IN errors[at]

\* best_match(errors): max() by relevance, the first of the greatest.  None
\* of the modelled keywords carries a context, so there is no descent.
best_match(errors) ==
    LET at == CHOOSE i \in 1..Len(errors) :
                /\ \A j \in 1..Len(errors) :
                        ~relevance_less(errors[i], errors[j])
                /\ \A j \in 1..(i - 1) : relevance_less(errors[j], errors[i])
    IN errors[at]

\* a report cut to the first error of the walk, whatever the mode
reported_errors_first(errors, fail_fast) == sort_errors(<<errors[1]>>)

\* lines 297-303: the fail-fast reduction, then the sort
reported_errors(errors, fail_fast) ==
    sort_errors(IF fail_fast THEN <<best_match(errors)>> ELSE errors)

\* path_to_str, lines 30-51: "$" for the empty path; an index is "[n]", a
\* key is preceded by "." unless it is first or follows an index; the result
\* is prefixed with "$.".
RECURSIVE path_parts(_, _)
path_parts(path, afterKey) ==
    IF path = <<>> THEN <<>>
    ELSE IF Head(path).i
         THEN <<91, 48 + Head(path).idx, 93>> \o path_parts(Tail(path), FALSE)
         ELSE (IF afterKey THEN <<46>> ELSE <<>>)
              \o AtomText[Head(path).key] \o path_parts(Tail(path), TRUE)
path_to_str(path) ==
    IF path = <<>> THEN <<36>>
    ELSE <<36, 46>> \o path_parts(path, FALSE)

(***************************************************************************)
(* Inputs.  The schema files and the documents the runs are given.         *)
(***************************************************************************)
\* the schema of tests/test_validate_yaml.py, lines 18-22
FixtureSchema ==
    SchemaOf(<<"type", "properties", "required">>, "object", <<"name">>,
             <<"name">>, <<TypeSchema("string")>>, <<>>, <<>>)

\* one entry of a directory: a mapping with a name and a known platform
EntrySchema ==
    SchemaOf(<<"type", "required", "properties">>, "object", <<"name">>,
             <<"name", "platform">>,
             <<TypeSchema("string"), EnumSchema(<<"whatsapp", "telegram">>)>>,
             <<>>, <<>>)
GroupsSchema ==
    SchemaOf(<<"type", "items">>, "array", <<>>, <<>>, <<>>,
             <<EntrySchema>>, <<>>)
\* a directory: a name and the sequence of its entries, both required
DirectorySchema ==
    SchemaOf(<<"type", "properties", "required">>, "object",
             <<"name", "groups">>, <<"name", "groups">>,
             <<TypeSchema("string"), GroupsSchema>>, <<>>, <<>>)
Schemas == {FixtureSchema, DirectorySchema}

\* What open() + json.load + check_schema make of the resolved schema file:
\* a schema; a file that cannot be read; text that is not JSON; JSON that
\* is no valid schema; a schema that passes check_schema and whose walk
\* raises (a $ref nothing resolves); bytes that are not UTF-8.
SchemaFile(kind, schema) == [kind |-> kind, schema |-> schema]
NoSchema == SchemaOf(<<>>, "", <<>>, <<>>, <<>>, <<>>, <<>>)
SchemaFiles ==
    {SchemaFile("ok", sch) : sch \in Schemas}
    \cup {SchemaFile(kind, NoSchema) :
            kind \in {"unreadable", "bad_json", "bad_schema",
                      "unresolvable_ref", "undecodable"}}

\* the entries a generated document draws its "groups" from: a valid one,
\* one without a name and with an unknown platform, one with a number for
\* a name and an unknown platform, and a bare string
Entries ==
    {ObjNode(<<"name", "platform">>, <<StrNode("Test"), StrNode("telegram")>>),
     ObjNode(<<"platform">>, <<StrNode("bogus")>>),
     ObjNode(<<"name", "platform">>, <<IntNode("25"), StrNode("50%")>>),
     StrNode("Test")}
EntrySeqs == UNION {[1..n -> Entries] : n \in 0..MaxItems}
NameValues == {StrNode("Test"), IntNode("25")}
GroupsValues == {StrNode("Test")} \cup {ArrNode(es) : es \in EntrySeqs}
\* two entries of one name and one URL on two platforms, and a third with
\* that name and another URL
DuplicateEntries ==
    <<ObjNode(<<"name", "platform", "url">>,
              <<StrNode("Test"), StrNode("telegram"), StrNode("https://t.me/a")>>),
      ObjNode(<<"name", "platform", "url">>,
              <<StrNode("Test"), StrNode("whatsapp"), StrNode("https://t.me/a")>>),
      ObjNode(<<"name", "platform", "url">>,
              <<StrNode("Test"), StrNode("telegram"), StrNode("https://t.me/b")>>)>>

\* an entry with one location in the country of that code
LocatedEntry(code) ==
    ObjNode(<<"name", "platform", "url", "locations">>,
            <<StrNode("Test"), StrNode("telegram"), StrNode("https://t.me/a"),
              ArrNode(<<ObjNode(<<"continent", "country_id">>,
                                <<StrNode("Asia"), StrNode(code)>>)>>)>>)

\* directories that satisfy the schema: one with the duplicated entry, one
\* located in TH and one located in ZZ, a code no country has
DomainDocuments ==
    {ObjNode(<<"name", "groups">>, <<StrNode("Test"), ArrNode(DuplicateEntries)>>)}
    \cup {ObjNode(<<"name", "groups">>,
                  <<StrNode("Test"), ArrNode(<<LocatedEntry(code)>>)>>) :
             code \in {"TH", "ZZ"}}

Documents ==
    {NullNode, ObjNode(<<>>, <<>>), ObjNode(<<"age">>, <<IntNode("25")>>)}
    \cup DomainDocuments
    \cup {ObjNode(<<"name">>, <<nm>>) : nm \in NameValues}
    \cup {ObjNode(<<"groups">>, <<gs>>) : gs \in GroupsValues}
    \cup {ObjNode(<<"name", "groups">>, <<nm, gs>>) :
            nm \in NameValues, gs \in GroupsValues}

\* What open() + YAML(typ="rt").load make of the data file: a document; no
\* such file; a file that cannot be read; a YAMLError with a problem_mark
\* (0-based line and column); a YAMLError without one (the reader's
\* "unacceptable character"); bytes that are not UTF-8.
YamlFile(kind, data, line, column) ==
    [kind |-> kind, data |-> data, line |-> line, column |-> column]
YamlFiles ==
    {YamlFile("ok", doc, 0, 0) : doc \in Documents}
    \cup {YamlFile(kind, NullNode, 0, 0) :
            kind \in {"missing", "unreadable", "unmarked_error", "undecodable"}}
    \cup {YamlFile("marked_error", NullNode, 0, 20),
          YamlFile("marked_error", NullNode, 1, 0)}

(***************************************************************************)
(* Source positions.  The round-trip loader records 0-based start marks:   *)
(* a mapping or sequence keeps its own (lc.line, lc.col); a mapping keeps  *)
(* for every key the four numbers (key line, key column, value line, value *)
(* column); a sequence keeps for every index the two numbers (line,        *)
(* column) of the item.  The documents are laid out in block style: one    *)
(* key per line, "key: scalar" on one line, a nested mapping indented by   *)
(* two under its key, a sequence's "- " items at the column of its key, an *)
(* empty mapping or sequence written inline.                               *)
(***************************************************************************)
IsInline(node) == node.k \notin {"obj", "arr"} \/ node.vals = <<>>

RECURSIVE Height(_)
RECURSIVE HeightUpTo(_, _)
\* lines taken by the first j children of a mapping or sequence
HeightUpTo(node, j) ==
    IF j = 0 THEN 0
    ELSE HeightUpTo(node, j - 1)
         + (IF node.k = "obj" /\ ~IsInline(node.vals[j])
            THEN 1 + Height(node.vals[j])
            ELSE Height(node.vals[j]))
Height(node) == IF IsInline(node) THEN 1 ELSE HeightUpTo(node, Len(node.vals))

\* start mark of child j of a container that starts at <<line, col>>
ChildStart(node, start, j) ==
    LET line == start[1] + HeightUpTo(node, j - 1)
        child == node.vals[j]
    IN IF node.k = "arr" THEN <<line, start[2] + 2>>
       ELSE IF IsInline(child)
            THEN <<line, start[2] + Len(AtomText[node.keys[j]]) + 2>>
       ELSE IF child.k = "arr" THEN <<line + 1, start[2]>>
       ELSE <<line + 1, start[2] + 2>>

\* container[part], lines 128-131: 0 when the step fails
ChildIndex(node, part) ==
    IF node.k = "obj" /\ ~part.i THEN KeyIndex(node, part.key)
    ELSE IF node.k = "arr" /\ part.i /\ part.idx < Len(node.vals)
         THEN part.idx + 1
    ELSE 0

\* The walk of lines 124-134 from a container at start along path: the
\* last container stepped from (parent), the step taken from it, the value
\* reached and its start mark; ok is FALSE when a step failed.
RECURSIVE Traverse(_, _, _, _, _)
Traverse(container, start, path, parent, part) ==
    IF path = <<>>
    THEN [ok |-> TRUE, parent |-> parent, part |-> part,
          container |-> container, start |-> start]
    ELSE LET j == ChildIndex(container, Head(path))
         IN IF j = 0
            THEN [ok |-> FALSE, parent |-> container, part |-> Head(path),
                  container |-> container, start |-> start]
            ELSE Traverse(container.vals[j], ChildStart(container, start, j),
                          Tail(path), <<container>>, Head(path))

\* get_position_from_path, lines 119-160; <<0, 0>> stands for (None, None).
\* A mapping parent holds four numbers for the key, which "line, col = ..."
\* cannot unpack: the ValueError is swallowed at line 147 and the fallback
\* of lines 151-158 answers with the start of the value reached, if that
\* value is a mapping or a sequence.
get_position_from_path(root, path) ==
    LET t == Traverse(root, <<0, 0>>, path, <<>>, Key(""))
    IN IF t.ok /\ t.parent # <<>> /\ t.parent[1].k = "arr"
       THEN <<t.start[1] + 1, t.start[2] + 1>>
       ELSE IF t.container.k \in {"obj", "arr"}
            THEN <<t.start[1] + 1, t.start[2] + 1>>
       ELSE <<0, 0>>

(***************************************************************************)
(* The run.                                                                *)
(***************************************************************************)
VARIABLES
    pc,           \* where the run is: "start", "resolve", "load_schema",
                  \* "load_yaml", "validate", "done"
    argv,         \* the command line: how argparse takes it, -s, -f,
                  \* --fail-fast, -q
    env_schema,   \* SCHEMA_PATH, "" when unset
    fs,           \* for every schema candidate, what is at that path
    schema_path,  \* the resolved schema path, "" before
    schema_file,  \* the schema file as load_schema found it
    yaml_file,    \* the data file as load_yaml_with_positions found it
    found,        \* the errors of the schema walk (line 277)
    errors,       \* the errors reported (after lines 297-303)
    out,          \* the lines printed to standard output, in order
    exit_code,    \* the process exit status, -1 while running
    steps,        \* the steps executed so far, in order
    runs,         \* which run of the same command line this is
    prev          \* output and exit status of the run before, if any

\* process_new_group.py
VARIABLES
    issue_body,   \* ISSUE_BODY of the run: its text, <<>> when unset or empty
    parsed_data,  \* what parse_issue_body returned
    new_group,    \* what create_group_entry returned
    data_file,    \* data.yaml as it is on disk
    status,       \* the exit status of the last run, -1 before the first
    printed,      \* what the last run printed
    history       \* data.yaml before the first run and, for every run since,
                  \* its exit status and the entry it built

\* generate_markdown.py
VARIABLES
    directory,    \* the data generate_markdown is given
    markdown      \* the lines it returned

validator_vars ==
    <<pc, argv, env_schema, fs, schema_path, schema_file, yaml_file,
      found, errors, out, exit_code, steps, runs, prev>>
new_group_vars ==
    <<issue_body, parsed_data, new_group, data_file, status, printed, history>>
markdown_vars == <<directory, markdown>>

vars == <<validator_vars, new_group_vars, markdown_vars>>

\* the other two scripts are not run
NewGroupIdle ==
    /\ issue_body = <<>>
    /\ parsed_data = <<>>
    /\ new_group = <<>>
    /\ data_file = <<>>
    /\ status = 0 - 1
    /\ printed = <<>>
    /\ history = <<>>
MarkdownIdle ==
    /\ directory = <<>>
    /\ markdown = <<>>

\* the positional argument
file_path == "data/groups.yaml"

Formats == {"text", "json", "gha"}
Argvs ==
    [args : {"ok", "bad", "help"}, schema : {"", "cli.json"},
     fmt : Formats, fail_fast : BOOLEAN, quiet : BOOLEAN]
EnvSchemas == {"", "env.json"}

\* the environment variable tried before the command-line path
candidates_env_first(cli_schema, env) ==
    (IF env # "" THEN <<env>> ELSE <<>>)
    \o (IF cli_schema # "" THEN <<cli_schema>> ELSE <<>>)
    \o <<"data/schema.json", "scripts/schema.json", "schema.json">>

\* resolve_schema_path, lines 55-72: the candidates in order
candidates(cli_schema, env) ==
    (IF cli_schema # "" THEN <<cli_schema>> ELSE <<>>)
    \o (IF env # "" THEN <<env>> ELSE <<>>)
    \o <<"data/schema.json", "scripts/schema.json", "schema.json">>

\* what can be at a candidate path; the override may name a directory
PathKinds(path) ==
    IF path = "cli.json" THEN {"absent", "dir", "file"} ELSE {"absent", "file"}
FileSystems(cands) ==
    {f \in [1..Len(cands) -> {"absent", "dir", "file"}] :
        \A i \in 1..Len(cands) : f[i] \in PathKinds(cands[i])}

\* the last candidate returned when none is a file
resolve_schema_path_fallback(cands, files) ==
    IF \E i \in 1..Len(cands) : files[i] = "file"
    THEN CHOOSE i \in 1..Len(cands) :
            /\ files[i] = "file"
            /\ \A j \in 1..(i - 1) : files[j] # "file"
    ELSE Len(cands)

\* lines 74-76: the index of the first candidate that is a file, 0 if none
resolve_schema_path(cands, files) ==
    IF \E i \in 1..Len(cands) : files[i] = "file"
    THEN CHOOSE i \in 1..Len(cands) :
            /\ files[i] = "file"
            /\ \A j \in 1..(i - 1) : files[j] # "file"
    ELSE 0

\* One printed line.  kind tells the line apart; the other fields hold what
\* the line states (0 and "" where it states nothing).
Line ==
    [kind |-> "", file |-> "", line |-> 0, col |-> 0, text |-> "",
     detail |-> "", msg_line |-> 0, msg_col |-> 0, paths |-> <<>>,
     n |-> 0, idx |-> 0, path_str |-> <<>>, message |-> <<>>,
     validator |-> "", body |-> <<>>]

\* a message: its fixed text, the error it wraps, the line and column it
\* names, the paths it lists
Message(text, detail, msg_line, msg_col, paths) ==
    [Line EXCEPT !.kind = "message", !.text = text, !.detail = detail,
                 !.msg_line = msg_line, !.msg_col = msg_col, !.paths = paths]

\* an annotation text printed as it is
gha_escape_none(s) == s

\* gha_escape, lines 25-27: "%" becomes "%25", then carriage return "%0D"
\* and line feed "%0A"; the "%" is replaced first, so the three rewrite
\* each character of s on its own.
RECURSIVE gha_escape(_)
gha_escape(s) ==
    IF Len(s) = 0 THEN <<>>
    ELSE IF Len(s) = 1
         THEN CASE s[1] = 37 -> <<37, 50, 53>>
                [] s[1] = 13 -> <<37, 48, 68>>
                [] s[1] = 10 -> <<37, 48, 65>>
                [] OTHER -> s
    ELSE LET h == Len(s) \div 2
         IN gha_escape(SubSeq(s, 1, h)) \o gha_escape(SubSeq(s, h + 1, Len(s)))

\* print_gha_error, lines 206-209: line and column default to 1, the text
\* after "::" is the message escaped
print_gha_error(path, msg, line, col) ==
    [msg EXCEPT !.kind = "gha_error", !.file = path,
                !.line = IF line # 0 THEN line ELSE 1,
                !.col = IF col # 0 THEN col ELSE 1,
                !.body = gha_escape(msg.body)]

\* the "if output_format == gha ... else print(msg)" of the error exits
report_error(fmt, path, msg) ==
    IF fmt = "gha" THEN <<print_gha_error(path, msg, 0, 0)>> ELSE <<msg>>

NotRead == "unread"

Init ==
    /\ pc = "start"
    /\ argv \in Argvs
    /\ env_schema \in EnvSchemas
    /\ fs \in FileSystems(candidates(argv.schema, env_schema))
    /\ schema_path = ""
    /\ schema_file = SchemaFile(NotRead, NoSchema)
    /\ yaml_file = YamlFile(NotRead, NullNode, 0, 0)
    /\ found = <<>>
    /\ errors = <<>>
    /\ out = <<>>
    /\ exit_code = 0 - 1
    /\ steps = <<>>
    /\ runs = 1
    /\ prev = <<>>
    /\ NewGroupIdle
    /\ MarkdownIdle

\* sys.exit(code) with the lines printed on the way
Exit(code, lines) ==
    /\ pc' = "done"
    /\ exit_code' = code
    /\ out' = out \o lines

\* main, line 367: parser.parse_args().  argparse ends the run itself on a
\* command line it rejects (usage on standard error, status 2) and on
\* -h/--help (help on standard output, status 0).
ParseArgs ==
    /\ pc = "start"
    /\ steps' = Append(steps, "parse_args")
    /\ CASE argv.args = "bad" -> Exit(2, <<>>)
         [] argv.args = "help" ->
              Exit(0, <<[Line EXCEPT !.kind = "help"]>>)
         [] OTHER -> /\ pc' = "resolve"
                     /\ UNCHANGED <<out, exit_code>>
    /\ UNCHANGED <<argv, env_schema, fs, schema_path, schema_file, yaml_file,
                   found, errors, runs, prev>>
    /\ UNCHANGED <<new_group_vars, markdown_vars>>

\* main, lines 369-378: resolve_schema_path; FileNotFoundError lists the
\* candidates and ends the run with EXIT_SCHEMA_ERROR.
ResolveSchema ==
    /\ pc = "resolve"
    /\ steps' = Append(steps, "resolve_schema_path")
    /\ LET cands == candidates(argv.schema, env_schema)
           at == resolve_schema_path(cands, fs)
       IN IF at # 0
          THEN /\ schema_path' = cands[at]
               /\ pc' = "load_schema"
               /\ UNCHANGED <<out, exit_code>>
          ELSE /\ Exit(EXIT_SCHEMA_ERROR,
                       report_error(argv.fmt, file_path,
                           Message("Schema file not found. Checked:", "",
                                   0, 0, cands)))
               /\ UNCHANGED schema_path
    /\ UNCHANGED <<argv, env_schema, fs, schema_file, yaml_file, found,
                   errors, runs, prev>>
    /\ UNCHANGED <<new_group_vars, markdown_vars>>

\* a loader that lets a schema through without check_schema
load_schema_unchecked(sf) ==
    CASE sf.kind = "unreadable" -> "Could not read schema file"
      [] sf.kind = "bad_json" -> "Invalid JSON Schema at"
      [] sf.kind = "undecodable" -> "UnicodeDecodeError"
      [] OTHER -> ""

\* load_schema, lines 83-96: the exception it raises on the file, "" when
\* it returns the schema.  OSError becomes FileNotFoundError, a JSON or
\* schema error becomes ValueError; a UnicodeDecodeError is none of the
\* three and leaves load_schema as it is.
load_schema(sf) ==
    CASE sf.kind = "unreadable" -> "Could not read schema file"
      [] sf.kind = "bad_json" -> "Invalid JSON Schema at"
      [] sf.kind = "bad_schema" -> "Schema is not a valid JSON Schema"
      [] sf.kind = "undecodable" -> "UnicodeDecodeError"
      [] OTHER -> ""

\* validate_yaml, lines 219-228: whatever load_schema raises is a schema
\* load error
LoadSchema ==
    /\ pc = "load_schema"
    /\ steps' = Append(steps, "load_schema")
    /\ \E sf \in (IF runs = 1 THEN SchemaFiles ELSE {schema_file}) :
        /\ schema_file' = sf
        /\ IF load_schema(sf) # ""
           THEN Exit(EXIT_SCHEMA_ERROR,
                     report_error(argv.fmt, schema_path,
                         Message("Schema load error:", load_schema(sf),
                                 0, 0, <<>>)))
           ELSE /\ pc' = "load_yaml"
                /\ UNCHANGED <<out, exit_code>>
    /\ UNCHANGED <<argv, env_schema, fs, schema_path, yaml_file, found,
                   errors, runs, prev>>
    /\ UNCHANGED <<new_group_vars, markdown_vars>>

\* the mark's 0-based line and column put in the message as they are
load_yaml_zero_based(yf) ==
    CASE yf.kind = "missing" ->
           [raises |-> "FileNotFoundError", line |-> 0, column |-> 0]
      [] yf.kind = "marked_error" ->
           [raises |-> "SyntaxError", line |-> yf.line, column |-> yf.column]
      [] yf.kind = "unmarked_error" ->
           [raises |-> "SyntaxError", line |-> 0, column |-> 0]
      [] yf.kind = "unreadable" ->
           [raises |-> "OSError", line |-> 0, column |-> 0]
      [] yf.kind = "undecodable" ->
           [raises |-> "UnicodeDecodeError", line |-> 0, column |-> 0]
      [] OTHER -> [raises |-> "", line |-> 0, column |-> 0]

\* load_yaml_with_positions, lines 99-116: the exception it raises on the
\* file ("" when it returns the document) and the 1-based line and column
\* its message names (0 when it names none).
load_yaml_with_positions(yf) ==
    CASE yf.kind = "missing" ->
           [raises |-> "FileNotFoundError", line |-> 0, column |-> 0]
      [] yf.kind = "marked_error" ->
           [raises |-> "SyntaxError", line |-> yf.line + 1,
            column |-> yf.column + 1]
      [] yf.kind = "unmarked_error" ->
           [raises |-> "SyntaxError", line |-> 0, column |-> 0]
      [] yf.kind = "unreadable" ->
           [raises |-> "OSError", line |-> 0, column |-> 0]
      [] yf.kind = "undecodable" ->
           [raises |-> "UnicodeDecodeError", line |-> 0, column |-> 0]
      [] OTHER -> [raises |-> "", line |-> 0, column |-> 0]

\* every failure of the read taken for a parse error
yaml_error_exit_parse(raises) == EXIT_YAML_PARSE_ERROR

\* a read failure of the data file taken for an unexpected error
yaml_error_exit_oserror(raises) ==
    IF raises \in {"FileNotFoundError", "SyntaxError"}
    THEN EXIT_YAML_PARSE_ERROR
    ELSE EXIT_UNEXPECTED_ERROR

\* the except clauses of lines 233-271: exit status and lines printed
yaml_error_exit(raises) ==
    IF raises \in {"FileNotFoundError", "SyntaxError", "OSError"}
    THEN EXIT_YAML_PARSE_ERROR
    ELSE EXIT_UNEXPECTED_ERROR

yaml_error_lines(fmt, r) ==
    CASE r.raises = "FileNotFoundError" ->
           report_error(fmt, file_path,
                        Message("YAML file not found:", r.raises, 0, 0, <<>>))
      [] r.raises = "SyntaxError" ->
           IF fmt = "gha"
           THEN <<print_gha_error(file_path,
                      Message("YAML parse error", r.raises, r.line, r.column,
                              <<>>),
                      r.line, r.column)>>
           ELSE <<[Message("YAML syntax error in", r.raises, r.line,
                           r.column, <<>>) EXCEPT !.file = file_path]>>
      [] r.raises = "OSError" ->
           report_error(fmt, file_path,
                        Message("Could not read YAML file:", r.raises, 0, 0,
                                <<>>))
      [] OTHER ->
           report_error(fmt, file_path,
                        Message("Unexpected error while reading YAML:",
                                r.raises, 0, 0, <<>>))

\* validate_yaml, lines 230-271
LoadYaml ==
    /\ pc = "load_yaml"
    /\ steps' = Append(steps, "load_yaml")
    /\ \E yf \in (IF runs = 1 THEN YamlFiles ELSE {yaml_file}) :
        /\ yaml_file' = yf
        /\ LET r == load_yaml_with_positions(yf)
           IN IF r.raises # ""
              THEN Exit(yaml_error_exit(r.raises),
                        yaml_error_lines(argv.fmt, r))
              ELSE /\ pc' = "validate"
                   /\ UNCHANGED <<out, exit_code>>
    /\ UNCHANGED <<argv, env_schema, fs, schema_path, schema_file, found,
                   errors, runs, prev>>
    /\ UNCHANGED <<new_group_vars, markdown_vars>>

\* a success message printed whether or not --quiet is given
success_lines_always(fmt, quiet) ==
    IF fmt = "gha"
    THEN <<[Line EXCEPT !.kind = "success", !.file = file_path,
                        !.text = "YAML validation successful for"]>>
    ELSE IF fmt = "json"
         THEN <<[Line EXCEPT !.kind = "json_ok", !.file = file_path]>>
    ELSE <<[Line EXCEPT !.kind = "success",
                        !.text = "YAML validation successful!"]>>

\* lines 286-295: what a run without findings prints
success_lines(fmt, quiet) ==
    IF quiet THEN <<>>
    ELSE IF fmt = "gha"
         THEN <<[Line EXCEPT !.kind = "success", !.file = file_path,
                             !.text = "YAML validation successful for"]>>
    ELSE IF fmt = "json"
         THEN <<[Line EXCEPT !.kind = "json_ok", !.file = file_path]>>
    ELSE <<[Line EXCEPT !.kind = "success",
                        !.text = "YAML validation successful!"]>>

\* what a report states of one finding: its resolved position, its path as
\* path_to_str prints it, its message and its keyword
finding_line(kind, data, err, idx, n) ==
    LET pos == get_position_from_path(data, err.path)
    IN [Line EXCEPT !.kind = kind, !.file = file_path, !.line = pos[1],
                    !.col = pos[2], !.idx = idx, !.n = n,
                    !.path_str = path_to_str(err.path),
                    !.message = err.message, !.validator = err.validator]

\* lines 305-316: one JSON object, its errorCount and its errors
RECURSIVE json_errors(_, _, _)
json_errors(data, errs, j) ==
    IF j > Len(errs) THEN <<>>
    ELSE <<finding_line("json_error", data, errs[j], j, Len(errs))>>
         \o json_errors(data, errs, j + 1)
json_report(data, path, errs) ==
    <<[Line EXCEPT !.kind = "json_report", !.file = file_path,
                   !.paths = <<path>>, !.n = Len(errs)]>>
    \o json_errors(data, errs, 1)

\* line 320: the text of the annotation of one finding
gha_message(err) ==
    err.message \o TxtPathOpen \o path_to_str(err.path) \o TxtValidatorSep
    \o AtomText[err.validator] \o TxtClose

\* lines 317-323: one annotation per error, then the summary line
RECURSIVE gha_errors(_, _, _)
gha_errors(data, errs, j) ==
    IF j > Len(errs) THEN <<>>
    ELSE LET f == [finding_line("message", data, errs[j], j, Len(errs))
                     EXCEPT !.body = gha_message(errs[j])]
         IN <<print_gha_error(file_path, f, f.line, f.col)>>
            \o gha_errors(data, errs, j + 1)
gha_report(data, errs) ==
    gha_errors(data, errs, 1)
    \o <<[Line EXCEPT !.kind = "gha_summary", !.file = file_path,
                      !.n = Len(errs)]>>

\* lines 324-329: the header, then "[idx/n]" and the block of every error
RECURSIVE text_errors(_, _, _)
text_errors(data, errs, j) ==
    IF j > Len(errs) THEN <<>>
    ELSE <<[Line EXCEPT !.kind = "text_index", !.idx = j, !.n = Len(errs)],
           finding_line("text_error", data, errs[j], j, Len(errs))>>
         \o text_errors(data, errs, j + 1)
text_report(data, errs) ==
    <<[Line EXCEPT !.kind = "text_header", !.file = file_path,
                   !.n = Len(errs)]>>
    \o text_errors(data, errs, 1)

failure_lines(fmt, data, path, errs) ==
    IF fmt = "json" THEN json_report(data, path, errs)
    ELSE IF fmt = "gha" THEN gha_report(data, errs)
    ELSE text_report(data, errs)

\* findings that do not change the exit status
validation_exit_success(errs) == EXIT_SUCCESS

\* a run without findings that ends with the status of one with findings
validation_exit_error(errs) == EXIT_VALIDATION_ERROR

\* lines 286 and 295, 331: the status of a run that walked the schema
validation_exit(errs) ==
    IF errs = <<>> THEN EXIT_SUCCESS ELSE EXIT_VALIDATION_ERROR

\* validate_yaml, lines 273-331: the walk, the fail-fast reduction, the
\* sort, the report and the exit status.  A walk that raises ends the run
\* with EXIT_UNEXPECTED_ERROR (lines 278-284).
Validate ==
    /\ pc = "validate"
    /\ steps' = Append(steps, "validate")
    /\ IF schema_file.kind = "unresolvable_ref"
       THEN /\ Exit(EXIT_UNEXPECTED_ERROR,
                    report_error(argv.fmt, file_path,
                        Message("Unexpected error during validation:",
                                "Unresolvable", 0, 0, <<>>)))
            /\ UNCHANGED <<found, errors>>
       ELSE LET all == iter_errors(schema_file.schema, yaml_file.data,
                                   <<>>, <<>>)
                errs == IF all = <<>> THEN <<>>
                        ELSE reported_errors(all, argv.fail_fast)
            IN /\ found' = all
               /\ errors' = errs
               /\ Exit(validation_exit(all),
                       IF all = <<>>
                       THEN success_lines(argv.fmt, argv.quiet)
                       ELSE failure_lines(argv.fmt, yaml_file.data,
                                          schema_path, errs))
    /\ UNCHANGED <<argv, env_schema, fs, schema_path, schema_file, yaml_file,
                   runs, prev>>
    /\ UNCHANGED <<new_group_vars, markdown_vars>>

\* The same command line run again, on the same files and environment.
Rerun ==
    /\ pc = "done"
    /\ runs < MaxRuns
    /\ runs' = runs + 1
    /\ prev' = <<[out |-> out, exit_code |-> exit_code]>>
    /\ pc' = "start"
    /\ schema_path' = ""
    /\ found' = <<>>
    /\ errors' = <<>>
    /\ out' = <<>>
    /\ exit_code' = 0 - 1
    /\ steps' = <<>>
    /\ UNCHANGED <<argv, env_schema, fs, schema_file, yaml_file>>
    /\ UNCHANGED <<new_group_vars, markdown_vars>>

\* one run of the command line
Next ==
    \/ ParseArgs
    \/ ResolveSchema
    \/ LoadSchema
    \/ LoadYaml
    \/ Validate

Spec == Init /\ [][Next]_vars

\* the command line run up to MaxRuns times on the same inputs
NextAgain ==
    \/ ParseArgs
    \/ ResolveSchema
    \/ LoadSchema
    \/ LoadYaml
    \/ Validate
    \/ Rerun

\* the repeated runs start with every schema candidate alike: all files
\* or all absent
InitAgain ==
    /\ Init
    /\ \A i \in DOMAIN fs : fs[i] = fs[1]

SpecAgain == InitAgain /\ [][NextAgain]_vars

\* The same files and environment validated again with --quiet switched:
\* given where it was not, dropped where it was.
RerunQuiet ==
    /\ pc = "done"
    /\ runs < MaxRuns
    /\ runs' = runs + 1
    /\ prev' = <<[out |-> out, exit_code |-> exit_code]>>
    /\ argv' = [argv EXCEPT !.quiet = ~argv.quiet]
    /\ pc' = "start"
    /\ schema_path' = ""
    /\ found' = <<>>
    /\ errors' = <<>>
    /\ out' = <<>>
    /\ exit_code' = 0 - 1
    /\ steps' = <<>>
    /\ UNCHANGED <<env_schema, fs, schema_file, yaml_file>>
    /\ UNCHANGED <<new_group_vars, markdown_vars>>

\* a run, then the run that differs from it in --quiet only
NextQuiet ==
    \/ ParseArgs
    \/ ResolveSchema
    \/ LoadSchema
    \/ LoadYaml
    \/ Validate
    \/ RerunQuiet

SpecQuiet == InitAgain /\ [][NextQuiet]_vars

(***************************************************************************)
(* process_new_group.py.  Text is a sequence of character codes; Str names *)
(* the texts the issue bodies are made of.                                 *)
(***************************************************************************)
Str ==
       ("### Group Name" :> <<35, 35, 35, 32, 71, 114, 111, 117, 112, 32, 78, 97, 109, 101>>)
    @@ ("### Platform" :> <<35, 35, 35, 32, 80, 108, 97, 116, 102, 111, 114, 109>>)
    @@ ("### URL" :> <<35, 35, 35, 32, 85, 82, 76>>)
    @@ ("### Continent" :> <<35, 35, 35, 32, 67, 111, 110, 116, 105, 110, 101, 110, 116>>)
    @@ ("### Country Code" :> <<35, 35, 35, 32, 67, 111, 117, 110, 116, 114, 121, 32, 67, 111, 100, 101>>)
    @@ ("### City" :> <<35, 35, 35, 32, 67, 105, 116, 121>>)
    @@ ("### Language Code" :> <<35, 35, 35, 32, 76, 97, 110, 103, 117, 97, 103, 101, 32, 67, 111, 100, 101>>)
    @@ ("### Commercial" :> <<35, 35, 35, 32, 67, 111, 109, 109, 101, 114, 99, 105, 97, 108>>)
    @@ ("### Tags" :> <<35, 35, 35, 32, 84, 97, 103, 115>>)
    @@ ("### Additional Information" :> <<35, 35, 35, 32, 65, 100, 100, 105, 116, 105, 111, 110, 97, 108, 32, 73, 110, 102, 111, 114, 109, 97, 116, 105, 111, 110>>)
    @@ ("### Other" :> <<35, 35, 35, 32, 79, 116, 104, 101, 114>>)
    @@ ("###" :> <<35, 35, 35>>)
    @@ ("Group Name" :> <<71, 114, 111, 117, 112, 32, 78, 97, 109, 101>>)
    @@ ("Platform" :> <<80, 108, 97, 116, 102, 111, 114, 109>>)
    @@ ("URL" :> <<85, 82, 76>>)
    @@ ("Continent" :> <<67, 111, 110, 116, 105, 110, 101, 110, 116>>)
    @@ ("Country Code" :> <<67, 111, 117, 110, 116, 114, 121, 32, 67, 111, 100, 101>>)
    @@ ("City" :> <<67, 105, 116, 121>>)
    @@ ("Language Code" :> <<76, 97, 110, 103, 117, 97, 103, 101, 32, 67, 111, 100, 101>>)
    @@ ("Commercial" :> <<67, 111, 109, 109, 101, 114, 99, 105, 97, 108>>)
    @@ ("Tags" :> <<84, 97, 103, 115>>)
    @@ ("Additional Information" :> <<65, 100, 100, 105, 116, 105, 111, 110, 97, 108, 32, 73, 110, 102, 111, 114, 109, 97, 116, 105, 111, 110>>)
    @@ ("_No response_" :> <<95, 78, 111, 32, 114, 101, 115, 112, 111, 110, 115, 101, 95>>)
    @@ ("[x]" :> <<91, 120, 93>>)
    @@ ("" :> <<>>)
    @@ ("Test" :> <<84, 101, 115, 116>>)
    @@ ("123" :> <<49, 50, 51>>)
    @@ (" Telegram " :> <<32, 84, 101, 108, 101, 103, 114, 97, 109, 32>>)
    @@ ("telegram" :> <<116, 101, 108, 101, 103, 114, 97, 109>>)
    @@ ("https://t.me/a" :> <<104, 116, 116, 112, 115, 58, 47, 47, 116, 46, 109, 101, 47, 97>>)
    @@ ("https://t.me/b" :> <<104, 116, 116, 112, 115, 58, 47, 47, 116, 46, 109, 101, 47, 98>>)
    @@ ("Asia" :> <<65, 115, 105, 97>>)
    @@ ("th" :> <<116, 104>>)
    @@ ("TH" :> <<84, 72>>)
    @@ ("Chiang Mai" :> <<67, 104, 105, 97, 110, 103, 32, 77, 97, 105>>)
    @@ ("EN" :> <<69, 78>>)
    @@ ("en" :> <<101, 110>>)
    @@ ("- [x] This is a commercial group" :> <<45, 32, 91, 120, 93, 32, 84, 104, 105, 115, 32, 105, 115, 32, 97, 32, 99, 111, 109, 109, 101, 114, 99, 105, 97, 108, 32, 103, 114, 111, 117, 112>>)
    @@ ("- [ ] This is a commercial group" :> <<45, 32, 91, 32, 93, 32, 84, 104, 105, 115, 32, 105, 115, 32, 97, 32, 99, 111, 109, 109, 101, 114, 99, 105, 97, 108, 32, 103, 114, 111, 117, 112>>)
    @@ ("a, ,b " :> <<97, 44, 32, 44, 98, 32>>)
    @@ ("a" :> <<97>>)
    @@ ("b" :> <<98>>)
    @@ ("Great" :> <<71, 114, 101, 97, 116>>)
    @@ ("group!" :> <<103, 114, 111, 117, 112, 33>>)
    @@ ("true" :> <<116, 114, 117, 101>>)
    @@ ("false" :> <<102, 97, 108, 115, 101>>)
    @@ ("null" :> <<110, 117, 108, 108>>)
    @@ ("~" :> <<126>>)
    @@ ("1" :> <<49>>)
    @@ ("1.0" :> <<49, 46, 48>>)
    @@ ("Great\n\ngroup!" :> <<71, 114, 101, 97, 116, 10, 10, 103, 114, 111, 117, 112, 33>>)
    @@ ("### Group URL" :> <<35, 35, 35, 32, 71, 114, 111, 117, 112, 32, 85, 82, 76>>)
    @@ ("### Country" :> <<35, 35, 35, 32, 67, 111, 117, 110, 116, 114, 121>>)
    @@ ("### Description" :> <<35, 35, 35, 32, 68, 101, 115, 99, 114, 105, 112, 116, 105, 111, 110>>)
    @@ ("Telegram" :> <<84, 101, 108, 101, 103, 114, 97, 109>>)
    @@ ("t.me/a" :> <<116, 46, 109, 101, 47, 97>>)
    @@ ("https://" :> <<104, 116, 116, 112, 115, 58, 47, 47>>)
    @@ ("http://[a" :> <<104, 116, 116, 112, 58, 47, 47, 91, 97>>)
    @@ ("ftp:t.me" :> <<102, 116, 112, 58, 116, 46, 109, 101>>)
    @@ ("Europe" :> <<69, 117, 114, 111, 112, 101>>)
    @@ ("Thailand" :> <<84, 104, 97, 105, 108, 97, 110, 100>>)
    @@ ("ZZ" :> <<90, 90>>)

\* str.strip() and \\s: the ASCII white space
IsSpace(ch) == ch \in {9, 10, 11, 12, 13, 32}

\* str.strip()
strip(s) ==
    IF \A i \in 1..Len(s) : IsSpace(s[i]) THEN <<>>
    ELSE LET first == CHOOSE i \in 1..Len(s) :
                        ~IsSpace(s[i]) /\ \A j \in 1..(i - 1) : IsSpace(s[j])
             last == CHOOSE i \in 1..Len(s) :
                        ~IsSpace(s[i]) /\ \A j \in (i + 1)..Len(s) : IsSpace(s[j])
         IN SubSeq(s, first, last)

\* str.lower() and str.upper() of ASCII text
lower(s) == [i \in 1..Len(s) |-> IF s[i] \in 65..90 THEN s[i] + 32 ELSE s[i]]
upper(s) == [i \in 1..Len(s) |-> IF s[i] \in 97..122 THEN s[i] - 32 ELSE s[i]]

\* sub in s
Contains(s, sub) ==
    \E i \in 1..(Len(s) - Len(sub) + 1) : SubSeq(s, i, i + Len(sub) - 1) = sub

\* s.split(sep) for a separator of one character: the pieces between the
\* separators, empty ones kept
split(s, sep) ==
    LET at == {i \in 1..Len(s) : s[i] = sep}
        cuts == at \cup {0, Len(s) + 1}
        Nth(n) == CHOOSE i \in cuts : Cardinality({j \in cuts : j < i}) = n
    IN [n \in 1..(Cardinality(at) + 1) |->
          SubSeq(s, Nth(n - 1) + 1, Nth(n) - 1)]

\* sep.join(parts)
RECURSIVE join(_, _)
join(sep, parts) ==
    IF parts = <<>> THEN <<>>
    ELSE IF Len(parts) = 1 THEN parts[1]
    ELSE parts[1] \o sep \o join(sep, Tail(parts))

\* Python values: None, a str, a bool, an int (its digits), a list, and a
\* CommentedMap with its keys in the order they were set and its values
\* beside them
PyInt(s) == [t |-> "int", s |-> s, b |-> FALSE, l |-> <<>>, keys |-> <<>>]
PyNone == [t |-> "none", s |-> <<>>, b |-> FALSE, l |-> <<>>, keys |-> <<>>]
PyStr(s) == [t |-> "str", s |-> s, b |-> FALSE, l |-> <<>>, keys |-> <<>>]
PyBool(b) == [t |-> "bool", s |-> <<>>, b |-> b, l |-> <<>>, keys |-> <<>>]
PyList(l) == [t |-> "list", s |-> <<>>, b |-> FALSE, l |-> l, keys |-> <<>>]
PyMap(keys, vals) ==
    [t |-> "map", s |-> <<>>, b |-> FALSE, l |-> vals, keys |-> keys]

\* bool(value)
Truthy(v) ==
    CASE v.t = "none" -> FALSE
      [] v.t = "str" -> v.s # <<>>
      [] v.t = "bool" -> v.b
      [] OTHER -> v.l # <<>>

\* dict.get(key)
Get(d, key) == IF key \in DOMAIN d THEN d[key] ELSE PyNone

\* d[key] = value
Set(d, key, value) == (key :> value) @@ d

\* The matches of r'^###\\s+' under re.MULTILINE: "###" at the start of the
\* text or after a line feed, then all the white space that follows, at
\* least one character of it.  MatchEnd is the first position after the
\* match that starts at i.
MatchStarts(body) ==
    {i \in 1..(Len(body) - 3) :
        /\ i = 1 \/ body[i - 1] = 10
        /\ SubSeq(body, i, i + 2) = <<35, 35, 35>>
        /\ IsSpace(body[i + 3])}
MatchEnd(body, i) ==
    IF \E j \in (i + 3)..Len(body) : ~IsSpace(body[j])
    THEN CHOOSE j \in (i + 3)..Len(body) :
            ~IsSpace(body[j]) /\ \A k \in (i + 3)..(j - 1) : IsSpace(body[k])
    ELSE Len(body) + 1

\* re.split, line 14: the text before the first match, between the
\* matches and after the last
sections(body) ==
    LET starts == MatchStarts(body)
        n == Cardinality(starts)
        Nth(k) == CHOOSE i \in starts : Cardinality({j \in starts : j < i}) = k - 1
    IN [k \in 1..(n + 1) |->
          SubSeq(body,
                 IF k = 1 THEN 1 ELSE MatchEnd(body, Nth(k - 1)),
                 IF k = n + 1 THEN Len(body) ELSE Nth(k) - 1)]

\* lines 20-22: the header and the content of a section that is not blank
header_of(section) == strip(split(strip(section), 10)[1])
content_of(section) == strip(join(<<10>>, Tail(split(strip(section), 10))))

\* line 47
tags_of(content) ==
    LET parts == split(content, 44)
    IN [i \in 1..Len(SelectSeq(parts, LAMBDA t : strip(t) # <<>>)) |->
          PyStr(strip(SelectSeq(parts, LAMBDA t : strip(t) # <<>>)[i]))]

\* a platform kept as it was typed
store_section_as_typed(data, section) ==
    LET header == header_of(section)
        text == content_of(section)
        none == text = Str["_No response_"]
        content == IF none THEN PyNone ELSE PyStr(text)
    IN CASE header = Str["Group Name"] -> Set(data, "name", content)
         [] header = Str["Platform"] -> Set(data, "platform", content)
         [] header = Str["URL"] -> Set(data, "url", content)
         [] OTHER -> data

\* lines 24-52: what one section stores in the dictionary
store_section(data, section) ==
    LET header == header_of(section)
        text == content_of(section)
        none == text = Str["_No response_"]
        content == IF none THEN PyNone ELSE PyStr(text)
    IN CASE header = Str["Group Name"] -> Set(data, "name", content)
         [] header = Str["Platform"] ->
              Set(data, "platform",
                  IF Truthy(content) THEN PyStr(lower(text)) ELSE PyNone)
         [] header = Str["URL"] -> Set(data, "url", content)
         [] header = Str["Continent"] -> Set(data, "continent", content)
         [] header = Str["Country Code"] ->
              Set(data, "country_id",
                  IF Truthy(content) THEN PyStr(upper(text)) ELSE PyNone)
         [] header = Str["City"] -> Set(data, "city", content)
         [] header = Str["Language Code"] ->
              Set(data, "language_id",
                  IF Truthy(content) THEN PyStr(lower(text)) ELSE PyNone)
         [] header = Str["Commercial"] ->
              Set(data, "commercial",
                  IF Truthy(content) THEN PyBool(Contains(text, Str["[x]"]))
                  ELSE PyBool(FALSE))
         [] header = Str["Tags"] ->
              Set(data, "tags",
                  IF Truthy(content) THEN PyList(tags_of(text))
                  ELSE PyList(<<>>))
         [] header = Str["Additional Information"] ->
              Set(data, "description", content)
         [] OTHER -> data

\* parse_issue_body, lines 7-54: the sections in their order, the blank
\* ones skipped
RECURSIVE parse_sections(_, _, _)
parse_sections(data, secs, k) ==
    IF k > Len(secs) THEN data
    ELSE parse_sections(IF strip(secs[k]) = <<>> THEN data
                        ELSE store_section(data, secs[k]),
                        secs, k + 1)
parse_issue_body(body) == parse_sections(<<>>, sections(body), 1)

\* how many blocks of lines an issue body is made of
MaxSections == 3

\* The blocks the issue bodies are made of, each a few lines: the sections
\* of the issue form filled in, left empty or answered "_No response_", a
\* section the form does not have, two lines without a marker, and a
\* marker alone on its line.
Blocks ==
    {<<"### Group Name", "Test", "">>,
     <<"### Group Name", "_No response_">>,
     <<"### Group Name">>,
     <<"### Platform", " Telegram ", "">>,
     <<"### Platform">>,
     <<"### URL", "https://t.me/a", "">>,
     <<"### Country Code", "th">>,
     <<"### Country Code", "_No response_">>,
     <<"### City", "_No response_">>,
     <<"### Language Code", "EN">>,
     <<"### Commercial", "- [x] This is a commercial group">>,
     <<"### Commercial", "- [ ] This is a commercial group">>,
     <<"### Tags", "a, ,b ">>,
     <<"### Tags", "_No response_">>,
     <<"### Additional Information", "Great\n\ngroup!">>,
     <<"### Other", "Test">>,
     <<"Group Name", "123">>,
     <<"###", "Continent", "Asia">>}

\* the text of a sequence of blocks: their lines joined by line feeds
RECURSIVE LinesOf(_)
LinesOf(blocks) ==
    IF blocks = <<>> THEN <<>>
    ELSE [i \in 1..Len(Head(blocks)) |-> Str[Head(blocks)[i]]]
         \o LinesOf(Tail(blocks))
BodyOf(blocks) == join(<<10>>, LinesOf(blocks))
Bodies ==
    {BodyOf(blocks) : blocks \in UNION {[1..n -> Blocks] : n \in 0..MaxSections}}

\* the validator is not run
ValidatorIdle ==
    /\ argv = <<>>
    /\ env_schema = ""
    /\ fs = <<>>
    /\ schema_path = ""
    /\ schema_file = SchemaFile(NotRead, NoSchema)
    /\ yaml_file = YamlFile(NotRead, NullNode, 0, 0)
    /\ found = <<>>
    /\ errors = <<>>
    /\ out = <<>>
    /\ exit_code = 0 - 1
    /\ steps = <<>>
    /\ runs = 1
    /\ prev = <<>>

\* parse_issue_body given a body
InitParse ==
    /\ pc = "parse_issue_body"
    /\ ValidatorIdle
    /\ MarkdownIdle
    /\ issue_body \in Bodies
    /\ parsed_data = <<>>
    /\ new_group = <<>>
    /\ data_file = <<>>
    /\ status = 0 - 1
    /\ printed = <<>>
    /\ history = <<>>

ParseIssueBody ==
    /\ pc = "parse_issue_body"
    /\ parsed_data' = parse_issue_body(issue_body)
    /\ pc' = "done"
    /\ UNCHANGED <<argv, env_schema, fs, schema_path, schema_file, yaml_file,
                   found, errors, out, exit_code, steps, runs, prev>>
    /\ UNCHANGED <<issue_body, new_group, data_file, status, printed, history>>
    /\ UNCHANGED markdown_vars

SpecParse == InitParse /\ [][ParseIssueBody]_vars

\* map[key] = value on a CommentedMap: a new key goes last
MapSet(map, key, value) ==
    IF \E i \in 1..Len(map.keys) : map.keys[i] = key
    THEN PyMap(map.keys,
               [i \in 1..Len(map.keys) |->
                  IF map.keys[i] = key THEN value ELSE map.l[i]])
    ELSE PyMap(Append(map.keys, key), Append(map.l, value))

\* map[key], None where there is no such key
MapGet(map, key) ==
    IF \E i \in 1..Len(map.keys) : map.keys[i] = key
    THEN map.l[CHOOSE i \in 1..Len(map.keys) : map.keys[i] = key]
    ELSE PyNone

\* a field copied whenever the dictionary has the key
emits_present(parsed, key) == key \in DOMAIN parsed

\* "if parsed_data.get(key):", lines 67-87
emits(parsed, key) == Truthy(Get(parsed, key))

\* lines 66-72: the location, with the fields that are set
location_of(parsed) ==
    LET l1 == IF emits(parsed, "continent")
              THEN MapSet(PyMap(<<>>, <<>>), "continent", parsed["continent"])
              ELSE PyMap(<<>>, <<>>)
        l2 == IF emits(parsed, "country_id")
              THEN MapSet(l1, "country_id", parsed["country_id"]) ELSE l1
    IN IF emits(parsed, "city") THEN MapSet(l2, "city", parsed["city"]) ELSE l2

\* create_group_entry, lines 56-90
create_group_entry(parsed) ==
    LET g0 == PyMap(<<"name", "platform", "url">>,
                    <<Get(parsed, "name"), Get(parsed, "platform"),
                      Get(parsed, "url")>>)
        g1 == IF Truthy(location_of(parsed))
              THEN MapSet(g0, "locations", PyList(<<location_of(parsed)>>))
              ELSE g0
        g2 == IF emits(parsed, "language_id")
              THEN MapSet(g1, "language_id", parsed["language_id"]) ELSE g1
        g3 == IF emits(parsed, "commercial")
              THEN MapSet(g2, "commercial", PyBool(TRUE)) ELSE g2
        g4 == IF emits(parsed, "tags")
              THEN MapSet(g3, "tags", parsed["tags"]) ELSE g3
    IN IF emits(parsed, "description")
       THEN MapSet(g4, "description", parsed["description"]) ELSE g4

\* a key the dictionary does not have
Absent == [t |-> "absent", s |-> <<>>, b |-> FALSE, l |-> <<>>, keys |-> <<>>]

\* The dictionaries create_group_entry is given: every field set, set to a
\* value that counts as false, or left out.
ParsedDicts ==
    {[key \in {k \in DOMAIN choice : choice[k] # Absent} |-> choice[key]] :
        choice \in
          [name : {Absent, PyNone, PyStr(Str["Test"])},
           platform : {Absent, PyStr(Str["telegram"])},
           url : {Absent, PyStr(Str["https://t.me/a"])},
           continent : {Absent, PyNone, PyStr(<<>>), PyStr(Str["Asia"])},
           country_id : {PyNone, PyStr(Str["TH"])},
           city : {Absent, PyStr(<<>>), PyStr(Str["Chiang Mai"])},
           language_id : {PyNone, PyStr(Str["en"])},
           commercial : {Absent, PyBool(FALSE), PyBool(TRUE)},
           tags : {PyList(<<>>), PyList(<<PyStr(Str["a"])>>)},
           description : {Absent, PyStr(<<>>), PyStr(Str["Great"])}]}

\* create_group_entry given a dictionary
InitEntry ==
    /\ pc = "create_group_entry"
    /\ ValidatorIdle
    /\ MarkdownIdle
    /\ issue_body = <<>>
    /\ parsed_data \in ParsedDicts
    /\ new_group = <<>>
    /\ data_file = <<>>
    /\ status = 0 - 1
    /\ printed = <<>>
    /\ history = <<>>

CreateGroupEntry ==
    /\ pc = "create_group_entry"
    /\ new_group' = create_group_entry(parsed_data)
    /\ pc' = "done"
    /\ UNCHANGED <<argv, env_schema, fs, schema_path, schema_file, yaml_file,
                   found, errors, out, exit_code, steps, runs, prev>>
    /\ UNCHANGED <<issue_body, parsed_data, data_file, status, printed, history>>
    /\ UNCHANGED markdown_vars

SpecEntry == InitEntry /\ [][CreateGroupEntry]_vars

(***************************************************************************)
(* data.yaml.  The file is kept as the YAML nodes written in it: scalars   *)
(* with their text, plain or quoted, sequences and mappings.               *)
(***************************************************************************)
YScalar(text, quoted) ==
    [t |-> "scalar", s |-> text, b |-> quoted, l |-> <<>>, keys |-> <<>>]
YSeq(items) == [t |-> "seq", s |-> <<>>, b |-> FALSE, l |-> items, keys |-> <<>>]
YMap(keys, vals) ==
    [t |-> "mapping", s |-> <<>>, b |-> FALSE, l |-> vals, keys |-> keys]

\* what the resolver takes a plain scalar for
ResolvePlain(text) ==
    IF text \in {<<>>, Str["null"], Str["~"]} THEN "none"
    ELSE IF text \in {Str["true"], Str["false"]} THEN "bool"
    ELSE IF \A i \in 1..Len(text) : text[i] \in 48..57 THEN "int"
    ELSE "str"

\* a string that can be written plain and read back as the same string:
\* the resolver takes it for a string, it starts with no indicator and has
\* no line feed, no ": " and no " #"
PlainSafe(text) ==
    /\ ResolvePlain(text) = "str"
    /\ text[1] \notin {33, 34, 35, 37, 38, 39, 42, 44, 45, 58, 62, 63, 64, 91,
                       93, 96, 123, 124, 125}
    /\ \A i \in 1..Len(text) : text[i] # 10
    /\ \A i \in 1..(Len(text) - 1) :
          <<text[i], text[i + 1]>> \notin {<<58, 32>>, <<32, 35>>}

\* yaml.load, line 114: the Python value of a node
RECURSIVE construct(_)
construct(node) ==
    CASE node.t = "seq" ->
           PyList([i \in 1..Len(node.l) |-> construct(node.l[i])])
      [] node.t = "mapping" ->
           PyMap(node.keys, [i \in 1..Len(node.l) |-> construct(node.l[i])])
      [] node.b -> PyStr(node.s)
      [] ResolvePlain(node.s) = "none" -> PyNone
      [] ResolvePlain(node.s) = "bool" -> PyBool(node.s = Str["true"])
      [] ResolvePlain(node.s) = "int" -> PyInt(node.s)
      [] OTHER -> PyStr(node.s)

\* yaml.dump, line 122: the node written for a Python value
RECURSIVE represent(_)
represent(value) ==
    CASE value.t = "list" ->
           YSeq([i \in 1..Len(value.l) |-> represent(value.l[i])])
      [] value.t = "map" ->
           YMap(value.keys, [i \in 1..Len(value.l) |-> represent(value.l[i])])
      [] value.t = "none" -> YScalar(<<>>, FALSE)
      [] value.t = "bool" ->
           YScalar(IF value.b THEN Str["true"] ELSE Str["false"], FALSE)
      [] value.t = "int" -> YScalar(value.s, FALSE)
      [] OTHER -> YScalar(value.s, ~PlainSafe(value.s))

\* what is at the path data.yaml
NoFile == [kind |-> "missing", doc |-> YScalar(<<>>, FALSE)]
File(doc) == [kind |-> "file", doc |-> doc]

\* an entry as it is written in the file
YEntry(name, quoted, url) ==
    YMap(<<"name", "platform", "url">>,
         <<YScalar(name, quoted), YScalar(Str["telegram"], FALSE),
           YScalar(url, FALSE)>>)

\* The data files the runs start from: none; an empty one; one without
\* "groups"; one with an empty list; one with an entry; one whose "groups"
\* is empty (null); one with an entry named '123' and a key after "groups".
DataFiles ==
    {NoFile,
     File(YScalar(<<>>, FALSE)),
     File(YMap(<<"version">>, <<YScalar(Str["1.0"], TRUE)>>)),
     File(YMap(<<"groups">>, <<YSeq(<<>>)>>)),
     File(YMap(<<"name", "groups">>,
               <<YScalar(Str["Test"], FALSE),
                 YSeq(<<YEntry(Str["Test"], FALSE, Str["https://t.me/a"])>>)>>)),
     File(YMap(<<"groups">>, <<YScalar(<<>>, FALSE)>>)),
     File(YMap(<<"groups", "version">>,
               <<YSeq(<<YEntry(Str["123"], TRUE, Str["https://t.me/b"])>>),
                 YScalar(Str["1"], FALSE)>>))}

\* ISSUE_BODY: unset or empty; a name without a URL; a URL without a name;
\* a name not answered; and four complete submissions
Submissions ==
    {<<>>,
     BodyOf(<<<<"### Group Name", "Test", "">>>>),
     BodyOf(<<<<"### URL", "https://t.me/a", "">>>>),
     BodyOf(<<<<"### Group Name", "_No response_">>,
              <<"### URL", "https://t.me/a", "">>>>),
     BodyOf(<<<<"### Group Name", "Test", "">>,
              <<"### Platform", " Telegram ", "">>,
              <<"### URL", "https://t.me/a", "">>>>),
     BodyOf(<<<<"Group Name", "123">>, <<"### Platform">>,
              <<"### URL", "https://t.me/a", "">>>>),
     BodyOf(<<<<"### Group Name", "Test", "">>,
              <<"### URL", "https://t.me/a", "">>,
              <<"### Country Code", "th">>,
              <<"### Commercial", "- [x] This is a commercial group">>,
              <<"### Tags", "a, ,b ">>,
              <<"### Additional Information", "Great\n\ngroup!">>>>)}

\* how many times the script is run on the same data file
MaxSubmissions == 2

\* the new entry put in place of the list
append_group_alone(data, group) == MapSet(data, "groups", PyList(<<group>>))

\* lines 116-119: "groups" made if missing, the new entry appended
append_group(data, group) ==
    LET d == IF \E i \in 1..Len(data.keys) : data.keys[i] = "groups"
             THEN data ELSE MapSet(data, "groups", PyList(<<>>))
    IN MapSet(d, "groups", PyList(Append(MapGet(d, "groups").l, group)))

\* What one run of main (lines 92-124) makes of ISSUE_BODY and data.yaml,
\* given the dictionary parsed from the body and the document loaded:
\* the exit status, the line printed to standard output, the dictionary
\* and the entry built, and data.yaml afterwards.  An exception that
\* nothing catches ends the run with status 1 and a traceback on standard
\* error: no data.yaml (line 113), a document that is no mapping (lines
\* 116-117), a "groups" that is no list (line 119).
submit(body, file, parsed, data) ==
    LET run(st, line, p, g, f) ==
            [status |-> st, printed |-> line, parsed_data |-> p,
             new_group |-> g, data_file |-> f]
    IN IF body = <<>>
       THEN run(1, <<"No issue body provided.">>, <<>>, <<>>, file)
       ELSE IF ~Truthy(Get(parsed, "name")) \/ ~Truthy(Get(parsed, "url"))
       THEN run(1, <<"Missing required fields (Name or URL).">>, parsed,
                <<>>, file)
       ELSE IF file.kind = "missing" \/ data.t # "map"
       THEN run(1, <<>>, parsed, create_group_entry(parsed), file)
       ELSE IF /\ \E i \in 1..Len(data.keys) : data.keys[i] = "groups"
               /\ MapGet(data, "groups").t # "list"
       THEN run(1, <<>>, parsed, create_group_entry(parsed), file)
       ELSE run(0, <<"Added group:">>, parsed, create_group_entry(parsed),
                File(represent(append_group(data,
                                            create_group_entry(parsed)))))

\* main with the body parsed (line 98) and data.yaml loaded (line 114)
main(body, file) ==
    submit(body, file, parse_issue_body(body), construct(file.doc))

\* the script run on data.yaml, time after time
InitNewGroup ==
    /\ pc = "main"
    /\ ValidatorIdle
    /\ MarkdownIdle
    /\ issue_body = <<>>
    /\ parsed_data = <<>>
    /\ new_group = <<>>
    /\ data_file \in DataFiles
    /\ status = 0 - 1
    /\ printed = <<>>
    /\ history = <<>>

\* one run, from the environment to the exit
Main ==
    /\ pc = "main"
    /\ Len(history) < MaxSubmissions
    /\ \E body \in Submissions : \E r \in {main(body, data_file)} :
             /\ issue_body' = body
             /\ parsed_data' = r.parsed_data
             /\ new_group' = r.new_group
             /\ data_file' = r.data_file
             /\ status' = r.status
             /\ printed' = r.printed
             /\ history' = Append(history,
                                  [body |-> body, status |-> r.status,
                                   new_group |-> r.new_group,
                                   before |-> data_file,
                                   after |-> r.data_file])
    /\ UNCHANGED <<pc, argv, env_schema, fs, schema_path, schema_file,
                   yaml_file, found, errors, out, exit_code, steps, runs, prev>>
    /\ UNCHANGED markdown_vars

SpecNewGroup == InitNewGroup /\ [][Main]_vars

(***************************************************************************)
(* generate_markdown.py: the directory rendered as a markdown page.        *)
(* A group and a location are Python dicts: functions from their keys.     *)
(* The page is the sequence of its lines, each with what it is (a heading  *)
(* of some level, a table-of-contents entry, a group's link) and the name  *)
(* it shows; a link is known by the group's name (its icon, language and   *)
(* commercial marks do not decide where it is written).                    *)
(***************************************************************************)
\* countries.get(country_id).name, or the code itself when iso3166 has none
get_country_name(country_id) ==
    IF country_id = "TH" THEN "Thailand" ELSE country_id

\* sum(seqs, []): the lines of consecutive parts of the page
RECURSIVE concat(_)
concat(seqs) ==
    IF seqs = <<>> THEN <<>> ELSE Head(seqs) \o concat(Tail(seqs))

\* the keys of a dict in the order they were first inserted
RECURSIVE keys(_)
keys(inserted) ==
    IF inserted = <<>> THEN <<>>
    ELSE LET rest == keys(SubSeq(inserted, 1, Len(inserted) - 1))
             k == inserted[Len(inserted)]
         IN IF \E i \in 1..Len(rest) : rest[i] = k THEN rest
            ELSE Append(rest, k)

\* sorted(items, key=text): stable, by code points
RECURSIVE sorted(_)
sorted(items) ==
    IF items = <<>> THEN <<>>
    ELSE LET rest == sorted(SubSeq(items, 1, Len(items) - 1))
             e == items[Len(items)]
             n == Cardinality({i \in 1..Len(rest) :
                                  ~StrLess(Str[e.text], Str[rest[i].text])})
         IN SubSeq(rest, 1, n) \o <<e>> \o SubSeq(rest, n + 1, Len(rest))

\* the (group, location) pairs of the groups that have locations
RECURSIVE categorise(_)
categorise(groups) ==
    IF groups = <<>> THEN <<>>
    ELSE LET group == Head(groups)
             locations == IF "locations" \in DOMAIN group
                          THEN group["locations"] ELSE <<>>
         IN [j \in 1..Len(locations) |->
                [group |-> group, location |-> locations[j]]]
            \o categorise(Tail(groups))

MdLine(kind, text) == [kind |-> kind, text |-> text]

\* the links of some (group, location) pairs, one line each
group_lines(pairs) ==
    [i \in 1..Len(pairs) |-> MdLine("group", pairs[i].group["name"])]

generate_markdown(data) ==
    LET groups == IF "groups" \in DOMAIN data THEN data["groups"] ELSE <<>>
        Has(location, key) == key \in DOMAIN location
        world_groups ==
            SelectSeq(groups, LAMBDA g : \/ "locations" \notin DOMAIN g
                                         \/ g["locations"] = <<>>)
        all_continent_groups ==
            SelectSeq(categorise(groups),
                      LAMBDA p : Has(p.location, "continent"))
        all_country_groups ==
            SelectSeq(all_continent_groups,
                      LAMBDA p : Has(p.location, "country_id"))
        all_city_groups ==
            SelectSeq(all_country_groups, LAMBDA p : Has(p.location, "city"))
        continent_groups(continent) ==
            SelectSeq(all_continent_groups,
                      LAMBDA p : p.location["continent"] = continent)
        country_groups(country_id) ==
            SelectSeq(all_country_groups,
                      LAMBDA p : p.location["country_id"] = country_id)
        city_groups(country_id, city) ==
            SelectSeq(all_city_groups,
                      LAMBDA p : /\ p.location["country_id"] = country_id
                                 /\ p.location["city"] = city)
        continents ==
            sorted(keys([i \in 1..Len(all_continent_groups) |->
                LET c == all_continent_groups[i].location["continent"]
                IN [key |-> c, text |-> c]]))
        countries_in_continent(continent) ==
            sorted(SelectSeq(
                keys([i \in 1..Len(all_country_groups) |->
                         LET id == all_country_groups[i].location["country_id"]
                         IN [key |-> id, text |-> get_country_name(id)]]),
                LAMBDA country :
                    \E i \in 1..Len(country_groups(country.key)) :
                       country_groups(country.key)[i].location["continent"]
                           = continent))
        cities_in_country(country_id) ==
            sorted(SelectSeq(
                keys([i \in 1..Len(all_city_groups) |->
                         LET l == all_city_groups[i].location
                         IN [key |-> l["city"], text |-> l["city"],
                             country_id |-> l["country_id"]]]),
                LAMBDA city : city.country_id = country_id))
        toc(continent) ==
            <<MdLine("toc_continent", continent)>>
            \o [i \in 1..Len(countries_in_continent(continent)) |->
                   MdLine("toc_country",
                          countries_in_continent(continent)[i].text)]
            \o <<MdLine("blank", "")>>
        city_section(continent, country_id, city) ==
            <<MdLine("h3", city)>>
            \o group_lines(SelectSeq(city_groups(country_id, city),
                     LAMBDA p : p.location["continent"] = continent))
        country_section(continent, country) ==
            <<MdLine("h2", country.text)>>
            \o group_lines(SelectSeq(country_groups(country.key),
                     LAMBDA p : /\ p.location["continent"] = continent
                                /\ ~Has(p.location, "city")))
            \o concat([i \in 1..Len(cities_in_country(country.key)) |->
                          city_section(continent, country.key,
                              cities_in_country(country.key)[i].key)])
            \o <<MdLine("spacer", "")>>
        continent_section(continent) ==
            <<MdLine("h1", continent)>>
            \o group_lines(SelectSeq(continent_groups(continent),
                     LAMBDA p : ~Has(p.location, "country_id")))
            \o concat([i \in 1..Len(countries_in_continent(continent)) |->
                          country_section(continent,
                              countries_in_continent(continent)[i])])
    IN <<MdLine("title", "Index"), MdLine("toc_world", "World")>>
       \o concat([i \in 1..Len(continents) |-> toc(continents[i].key)])
       \o <<MdLine("rule", ""), MdLine("h1", "World")>>
       \o [i \in 1..Len(world_groups) |->
              MdLine("group", world_groups[i]["name"])]
       \o <<MdLine("spacer", "")>>
       \o concat([i \in 1..Len(continents) |->
                     continent_section(continents[i].key)])

\* the directories the page is generated from
MaxLocations == 2

Locations ==
    {[k \in K |-> full[k]] :
        K \in SUBSET {"continent", "country_id", "city"},
        full \in [continent : {"Asia", "Europe"}, country_id : {"TH", "ZZ"},
                  city : {"Chiang Mai"}]}

Directories ==
    LET first == {[name |-> "Test"]}
                 \cup {[name |-> "Test", locations |-> l] :
                          l \in UNION {[1..n -> Locations] :
                                          n \in 0..MaxLocations}}
        others == {<<>>,
                   <<[name |-> "a"]>>,
                   <<[name |-> "a",
                      locations |-> <<[continent |-> "Asia",
                                       country_id |-> "TH"]>>]>>,
                   <<[name |-> "a",
                      locations |-> <<[continent |-> "Europe",
                                       country_id |-> "TH",
                                       city |-> "Chiang Mai"]>>]>>}
    IN {<<>>} \cup {[groups |-> <<g>> \o o] : g \in first, o \in others}
              \cup {[groups |-> o \o <<g>>] : g \in first, o \in others}

InitMarkdown ==
    /\ pc = "generate_markdown"
    /\ ValidatorIdle
    /\ NewGroupIdle
    /\ directory \in Directories
    /\ markdown = <<>>

\* main: the page is written from the directory that was read
GenerateMarkdown ==
    /\ pc = "generate_markdown"
    /\ markdown' = generate_markdown(directory)
    /\ pc' = "done"
    /\ UNCHANGED <<argv, env_schema, fs, schema_path, schema_file, yaml_file,
                   found, errors, out, exit_code, steps, runs, prev>>
    /\ UNCHANGED <<new_group_vars, directory>>

SpecMarkdown == InitMarkdown /\ [][GenerateMarkdown]_vars

(***************************************************************************)
(* process_group_submission.py: an issue of the submission form checked    *)
(* and, when nothing is wrong with it, appended to the directory file.     *)
(***************************************************************************)
\* re.search(header + r"\s*\n\s*(\S.*?)(?:\n\s*###|\n\s*$)", body, DOTALL),
\* with the third ending "_No response_" for the optional fields: group 1
\* of the leftmost match, <<>> when there is none.  After the header comes
\* white space that holds a line feed; the group starts at the first
\* character that is not white space and ends before the first place, at
\* least one character on, where an ending starts: a line feed followed,
\* after white space, by "###" or by the end of the text.
field_match(body, header, optional) ==
    LET n == Len(body)
        NonSpace(i) ==
            LET after == {s \in i..n : ~IsSpace(body[s])}
            IN IF after = {} THEN 0
               ELSE CHOOSE s \in after : \A t \in after : s <= t
        Marker(q) ==
            q = 0 \/ (q + 2 <= n /\ SubSeq(body, q, q + 2) = <<35, 35, 35>>)
        Ends(e) ==
            \/ body[e] = 10 /\ Marker(NonSpace(e + 1))
            \/ /\ optional
               /\ e + 12 <= n
               /\ SubSeq(body, e, e + 12) = Str["_No response_"]
        Matches(p, s) ==
            /\ SubSeq(body, p, p + Len(header) - 1) = header
            /\ s # 0
            /\ \E j \in (p + Len(header))..(s - 1) : body[j] = 10
            /\ \E e \in (s + 1)..n : Ends(e)
        found_at == {p \in 1..(n - Len(header) + 1) :
                        Matches(p, NonSpace(p + Len(header)))}
    IN IF found_at = {} THEN <<>>
       ELSE LET p == CHOOSE q \in found_at : \A r \in found_at : q <= r
                start == NonSpace(p + Len(header))
                ends == {e \in (start + 1)..n : Ends(e)}
            IN SubSeq(body, start,
                      (CHOOSE x \in ends : \A y \in ends : x <= y) - 1)

\* extract_form_data, lines 10-70: the required fields stripped or None,
\* the optional ones stripped or "" (a list of the stripped pieces for
\* Tags), a "_No response_" answer counting as none for the optional ones
extract_form_data(body) ==
    LET required(header) ==
            IF field_match(body, header, FALSE) = <<>> THEN PyNone
            ELSE PyStr(strip(field_match(body, header, FALSE)))
        answered(header) ==
            /\ field_match(body, header, TRUE) # <<>>
            /\ ~Contains(field_match(body, header, TRUE), Str["_No response_"])
        answer(header) ==
            IF answered(header)
            THEN PyStr(strip(field_match(body, header, TRUE))) ELSE PyStr(<<>>)
        tags == split(field_match(body, Str["### Tags"], TRUE), 44)
    IN [platform |-> required(Str["### Platform"]),
        name |-> required(Str["### Group Name"]),
        url |-> required(Str["### Group URL"]),
        continent |-> required(Str["### Continent"]),
        country |-> answer(Str["### Country"]),
        city |-> answer(Str["### City"]),
        tags |-> IF answered(Str["### Tags"])
                 THEN PyList([i \in 1..Len(tags) |-> PyStr(strip(tags[i]))])
                 ELSE PyList(<<>>),
        description |-> answer(Str["### Description"])]

\* urllib.parse.urlparse: the scheme is what stands before the first ":"
\* when it starts with a letter and holds only letters, digits, "+", "-"
\* and "."; the netloc is what follows "//" up to the next "/", "?" or
\* "#"; a netloc with one of "[" and "]" and not the other raises
urlparse(url) ==
    LET colons == {i \in 1..Len(url) : url[i] = 58}
        colon == IF colons = {} THEN 0
                 ELSE CHOOSE i \in colons : \A j \in colons : i <= j
        letter(ch) == ch \in 65..90 \/ ch \in 97..122
        has_scheme ==
            /\ colon > 1
            /\ letter(url[1])
            /\ \A i \in 1..(colon - 1) :
                  letter(url[i]) \/ url[i] \in 48..57 \/ url[i] \in {43, 45, 46}
        rest == IF has_scheme THEN SubSeq(url, colon + 1, Len(url)) ELSE url
        stops == {i \in 3..Len(rest) : rest[i] \in {47, 63, 35}}
        stop == IF stops = {} THEN Len(rest) + 1
                ELSE CHOOSE i \in stops : \A j \in stops : i <= j
        netloc == IF Len(rest) >= 2 /\ SubSeq(rest, 1, 2) = <<47, 47>>
                  THEN SubSeq(rest, 3, stop - 1) ELSE <<>>
        has(ch) == \E i \in 1..Len(netloc) : netloc[i] = ch
    IN [scheme |-> IF has_scheme THEN lower(SubSeq(url, 1, colon - 1))
                   ELSE <<>>,
        netloc |-> netloc,
        raises |-> has(91) # has(93)]

\* the checks given up at the first error
validate_data_first(data) ==
    IF ~Truthy(data["name"]) THEN <<"Group name is required">>
    ELSE IF ~Truthy(data["url"]) THEN <<"Group URL is required">>
    ELSE IF \/ urlparse(data["url"].s).raises
            \/ urlparse(data["url"].s).scheme = <<>>
            \/ urlparse(data["url"].s).netloc = <<>>
    THEN <<"Invalid URL format">>
    ELSE IF ~Truthy(data["platform"]) THEN <<"Platform is required">>
    ELSE IF ~Truthy(data["continent"]) THEN <<"Continent is required">>
    ELSE <<>>

\* validate_data, lines 73-96
validate_data(data) ==
    (IF ~Truthy(data["name"]) THEN <<"Group name is required">> ELSE <<>>)
    \o (IF ~Truthy(data["url"]) THEN <<"Group URL is required">>
        ELSE IF \/ urlparse(data["url"].s).raises
                \/ urlparse(data["url"].s).scheme = <<>>
                \/ urlparse(data["url"].s).netloc = <<>>
        THEN <<"Invalid URL format">>
        ELSE <<>>)
    \o (IF ~Truthy(data["platform"]) THEN <<"Platform is required">>
        ELSE <<>>)
    \o (IF ~Truthy(data["continent"]) THEN <<"Continent is required">>
        ELSE <<>>)

\* generate_yaml_entry, lines 99-131; every name of platform_map is mapped
\* to itself in lower case, as is a platform the map does not have
generate_yaml_entry(data) ==
    LET optional(map, key) ==
            IF Truthy(data[key]) THEN MapSet(map, key, data[key]) ELSE map
        location ==
            optional(optional(PyMap(<<"continent">>, <<data["continent"]>>),
                              "country"), "city")
    IN optional(optional(
           PyMap(<<"name", "platform", "url", "location">>,
                 <<data["name"], PyStr(lower(data["platform"].s)),
                   data["url"], location>>),
           "tags"), "description")

\* a line written to the GitHub output file or printed: its fixed text,
\* the value put after it and the errors it lists
OutLine(text, value, listed) ==
    [text |-> text, value |-> value, errors |-> listed]

\* Lines 158-230 with the form data extracted, checked and the directory
\* read (or made, for no file or an empty one): the exit status, the lines
\* appended to the GitHub output file (when there is one) or printed, the
\* entry made and the directory file afterwards.  An exception of lines
\* 189-200 (a document that is no mapping, a "groups" that is no list) is
\* caught at line 222 and ends the run with status 1.
submission(github_output, file, data, validation_errors, loaded_directory) ==
    LET new_entry == generate_yaml_entry(data)
        extracted == OutLine("Extracted data:", <<>>, <<>>)
        location_str ==
            data["continent"].s
            \o (IF Truthy(data["country"])
                THEN <<44, 32>> \o data["country"].s ELSE <<>>)
            \o (IF Truthy(data["city"])
                THEN <<44, 32>> \o data["city"].s ELSE <<>>)
        run(st, output, lines, entry, f) ==
            [status |-> st, validation_errors |-> validation_errors,
             github_output |-> github_output, output |-> output,
             printed |-> <<extracted>> \o lines, data |-> data,
             new_entry |-> entry, data_file |-> f]
    IN IF validation_errors # <<>>
       THEN IF github_output
            THEN run(0, <<OutLine("valid=false", <<>>, <<>>),
                          OutLine("message=The following errors were found:",
                                  <<>>, validation_errors)>>,
                     <<>>, <<>>, file)
            ELSE run(0, <<>>,
                     <<OutLine("Validation failed with the following errors:",
                               <<>>, <<>>)>>
                     \o [i \in 1..Len(validation_errors) |->
                            OutLine("- ", <<>>, <<validation_errors[i]>>)],
                     <<>>, file)
       ELSE IF \/ loaded_directory.t # "map"
               \/ MapGet(loaded_directory, "groups").t # "list"
       THEN IF github_output
            THEN run(1, <<OutLine("valid=false", <<>>, <<>>),
                          OutLine("message=An error occurred:", <<>>, <<>>)>>,
                     <<>>, <<>>, file)
            ELSE run(1, <<>>, <<OutLine("Error:", <<>>, <<>>)>>, <<>>, file)
       ELSE IF github_output
       THEN run(0, <<OutLine("valid=true", <<>>, <<>>),
                     OutLine("group_name=", data["name"].s, <<>>),
                     OutLine("platform=", data["platform"].s, <<>>),
                     OutLine("location=", location_str, <<>>),
                     OutLine("message=Your submission has been processed successfully!",
                             <<>>, <<>>)>>,
                <<>>, new_entry,
                File(represent(MapSet(loaded_directory, "groups",
                        PyList(Append(MapGet(loaded_directory, "groups").l,
                                      new_entry))))))
       ELSE run(0, <<>>,
                <<OutLine("Successfully added group:", data["name"].s, <<>>),
                  OutLine("Platform:", data["platform"].s, <<>>),
                  OutLine("Location:", location_str, <<>>)>>,
                new_entry,
                File(represent(MapSet(loaded_directory, "groups",
                        PyList(Append(MapGet(loaded_directory, "groups").l,
                                      new_entry))))))

\* yaml.safe_load(file) or {"version": "1.0", "groups": []}, and the same
\* for no file; "groups" made empty in a mapping that has none (lines
\* 181-190)
read_directory(file) ==
    LET basic == PyMap(<<"version", "groups">>,
                       <<PyStr(Str["1.0"]), PyList(<<>>)>>)
        loaded == construct(file.doc)
    IN IF file.kind = "missing" \/ ~Truthy(loaded) THEN basic
       ELSE IF loaded.t = "map"
               /\ ~\E i \in 1..Len(loaded.keys) : loaded.keys[i] = "groups"
       THEN MapSet(loaded, "groups", PyList(<<>>))
       ELSE loaded

\* the issues submitted: nothing filled in; a name alone; a complete one;
\* one with all the optional fields; one with no name and a URL without a
\* scheme; ones whose URL has no host, has a bad host, has no "//"; one
\* with name and URL and neither platform nor continent; one whose last
\* answer has no line after it
SubmissionBodies ==
    {BodyOf(<<<<"### Other", "Test", "">>>>),
     BodyOf(<<<<"### Group Name", "Test", "">>>>),
     BodyOf(<<<<"### Group Name", "Test">>, <<"### Platform", " Telegram ">>,
              <<"### Group URL", "https://t.me/a">>,
              <<"### Continent", "Asia", "">>>>),
     BodyOf(<<<<"### Group Name", "123">>, <<"### Platform", " Telegram ">>,
              <<"### Group URL", "https://t.me/b">>,
              <<"### Continent", "Asia">>, <<"### Country", "TH">>,
              <<"### City", "Chiang Mai">>, <<"### Tags", "a, ,b ">>,
              <<"### Description", "Great\n\ngroup!", "">>>>),
     BodyOf(<<<<"### Platform", " Telegram ">>,
              <<"### Group URL", "t.me/a">>,
              <<"### Continent", "Asia", "">>>>),
     BodyOf(<<<<"### Group Name", "Test">>, <<"### Platform", " Telegram ">>,
              <<"### Group URL", "https://">>,
              <<"### Continent", "_No response_", "">>>>),
     BodyOf(<<<<"### Group Name", "Test">>,
              <<"### Group URL", "http://[a">>,
              <<"### Continent", "Asia", "">>>>),
     BodyOf(<<<<"### Group Name", "Test">>, <<"### Platform", " Telegram ">>,
              <<"### Group URL", "ftp:t.me", "">>>>),
     BodyOf(<<<<"### Group Name", "Test">>,
              <<"### Group URL", "https://t.me/a", "">>>>),
     BodyOf(<<<<"### Group Name", "Test">>, <<"### Platform", " Telegram ">>,
              <<"### Group URL", "https://t.me/a">>,
              <<"### Continent", "Asia">>>>)}

\* data = extract_form_data(issue_body), line 160, of each of them
Extracted == [body \in SubmissionBodies |-> extract_form_data(body)]

InitSubmission ==
    /\ pc = "process_group_submission"
    /\ ValidatorIdle
    /\ MarkdownIdle
    /\ issue_body = <<>>
    /\ parsed_data = <<>>
    /\ new_group = <<>>
    /\ data_file \in DataFiles
    /\ status = 0 - 1
    /\ printed = <<>>
    /\ history = <<>>

\* main, lines 134-230, run on the directory file time after time, for
\* --issue-body, a GitHub output file given or not, and the file at
\* --output-file; no body here starts and ends with a double quote
ProcessGroupSubmission ==
    /\ pc = "process_group_submission"
    /\ Len(history) < MaxSubmissions
    /\ \E body \in SubmissionBodies, github_output \in BOOLEAN :
          \E data \in {Extracted[body]} :
          \E validation_errors \in {validate_data(data)} :
          \E r \in {submission(github_output, data_file, data,
                               validation_errors, read_directory(data_file))} :
             /\ issue_body' = body
             /\ parsed_data' = r.data
             /\ new_group' = r.new_entry
             /\ data_file' = r.data_file
             /\ status' = r.status
             /\ printed' = r.printed
             /\ history' = Append(history, [body |-> body, before |-> data_file,
                                            run |-> r])
    /\ UNCHANGED <<pc, argv, env_schema, fs, schema_path, schema_file,
                   yaml_file, found, errors, out, exit_code, steps, runs, prev>>
    /\ UNCHANGED markdown_vars

SpecSubmission == InitSubmission /\ [][ProcessGroupSubmission]_vars

(***************************************************************************)
(* Properties.                                                             *)
(***************************************************************************)
Range(seq) == {seq[i] : i \in 1..Len(seq)}

\* the run has ended after walking a loaded schema over a parsed document
Validated ==
    /\ pc = "done"
    /\ schema_file.kind = "ok"
    /\ yaml_file.kind = "ok"
    /\ "validate" \in Range(steps)

\* the lines of a report that state one finding each
IsFindingLine(l) ==
    \/ l.kind \in {"json_error", "text_error"}
    \/ l.kind = "gha_error" /\ l.validator # ""
FindingLines(lines) == SelectSeq(lines, IsFindingLine)

\* the lines of a report that state the number of findings
IsCountLine(l) == l.kind \in {"text_header", "json_report", "gha_summary"}
CountLines(lines) == SelectSeq(lines, IsCountLine)

\* A document satisfies a schema: the meaning of the five keywords, stated
\* as a condition on the document instead of a list of errors.
RECURSIVE Conforms(_, _)
Conforms(schema, inst) ==
    \A keyword \in Range(schema.kw) :
        CASE keyword = "type" -> is_type(inst, schema.type)
          [] keyword = "enum" ->
               inst.k = "str" /\ inst.a \in Range(schema.enum)
          [] keyword = "required" ->
               inst.k = "obj" => Range(schema.required) \subseteq Range(inst.keys)
          [] keyword = "properties" ->
               inst.k = "obj" =>
                 \A j \in 1..Len(schema.pnames) :
                    \A at \in 1..Len(inst.keys) :
                       inst.keys[at] = schema.pnames[j]
                         => Conforms(schema.pschemas[j], inst.vals[at])
          [] keyword = "items" ->
               inst.k = "arr" =>
                 \A j \in 1..Len(inst.vals) :
                    Conforms(schema.items[1], inst.vals[j])
          [] OTHER -> TRUE

\* C1: a run that loads its schema and parses a document satisfying that
\* schema finds nothing, reports no finding and exits with EXIT_SUCCESS, in
\* every output format, with or without --fail-fast and --quiet.
C1_ValidDocumentSucceeds ==
    (Validated /\ Conforms(schema_file.schema, yaml_file.data))
      => /\ found = <<>>
         /\ errors = <<>>
         /\ FindingLines(out) = <<>>
         /\ CountLines(out) = <<>>
         /\ exit_code = EXIT_SUCCESS

\* a directory with one valid entry, validated with --fail-fast in the
\* annotation format
C1_Witness ==
    /\ Validated
    /\ schema_file.schema = DirectorySchema
    /\ yaml_file.data.k = "obj"
    /\ Len(yaml_file.data.keys) = 2
    /\ yaml_file.data.vals[2].k = "arr"
    /\ Len(yaml_file.data.vals[2].vals) = 1
    /\ Conforms(schema_file.schema, yaml_file.data)
    /\ argv.fmt = "gha"
    /\ argv.fail_fast
    /\ exit_code = EXIT_SUCCESS

\* The required fields a document lacks: the pairs <<path of a mapping,
\* field>> where a schema applied to that mapping requires the field and the
\* mapping has no such key.
RECURSIVE MissingRequired(_, _, _)
MissingRequired(schema, inst, path) ==
    (IF "required" \in Range(schema.kw) /\ inst.k = "obj"
     THEN {<<path, f>> : f \in Range(schema.required) \ Range(inst.keys)}
     ELSE {})
    \cup
    (IF "properties" \in Range(schema.kw) /\ inst.k = "obj"
     THEN UNION {IF inst.keys[at] = schema.pnames[j]
                 THEN MissingRequired(schema.pschemas[j], inst.vals[at],
                                      Append(path, Key(inst.keys[at])))
                 ELSE {} :
                   j \in 1..Len(schema.pnames), at \in 1..Len(inst.keys)}
     ELSE {})
    \cup
    (IF "items" \in Range(schema.kw) /\ inst.k = "arr"
     THEN UNION {MissingRequired(schema.items[1], inst.vals[j],
                                 Append(path, Idx(j - 1))) :
                   j \in 1..Len(inst.vals)}
     ELSE {})

Missing == MissingRequired(schema_file.schema, yaml_file.data, <<>>)

\* C2, as claimed: for every required field a document lacks, a reported
\* finding has the path of that field, and the run exits with
\* EXIT_VALIDATION_ERROR.
C2_FindingAtFieldPath ==
    Validated =>
      \A m \in Missing :
         /\ \E e \in Range(errors) : e.path = Append(m[1], Key(m[2]))
         /\ exit_code = EXIT_VALIDATION_ERROR

\* C2, amended: for every required field a document lacks, the run exits
\* with EXIT_VALIDATION_ERROR, and the walk yields a "required" finding
\* whose path is the path of the mapping that lacks the field and whose
\* message names the field; without --fail-fast that finding is reported.
C2_MissingRequiredReported ==
    Validated =>
      \A m \in Missing :
         LET IsIt(e) == /\ e.path = m[1]
                        /\ e.validator = "required"
                        /\ e.message = ReprStr(m[2]) \o TxtIsRequired
         IN /\ exit_code = EXIT_VALIDATION_ERROR
            /\ \E e \in Range(found) : IsIt(e)
            /\ ~argv.fail_fast =>
                 /\ \E e \in Range(errors) : IsIt(e)
                 /\ \E l \in Range(FindingLines(out)) :
                       /\ l.path_str = path_to_str(m[1])
                       /\ l.message = ReprStr(m[2]) \o TxtIsRequired

\* test_validate_yaml_invalid: "age: 25" against the fixture schema
C2_Witness ==
    /\ Validated
    /\ schema_file.schema = FixtureSchema
    /\ yaml_file.data = ObjNode(<<"age">>, <<IntNode("25")>>)
    /\ Missing = {<<(<<>>), "name">>}
    /\ argv.quiet
    /\ exit_code = EXIT_VALIDATION_ERROR

\* the data file was read and is no well-formed YAML
Malformed == yaml_file.kind \in {"marked_error", "unmarked_error"}

\* C3, as claimed: a malformed document ends the run with
\* EXIT_YAML_PARSE_ERROR and the message printed names a line number.
C3_MessageHasLineNumber ==
    (pc = "done" /\ Malformed)
      => /\ exit_code = EXIT_YAML_PARSE_ERROR
         /\ \E l \in Range(out) : l.msg_line > 0

\* C3, amended: a malformed document ends the run with
\* EXIT_YAML_PARSE_ERROR, never EXIT_VALIDATION_ERROR or
\* EXIT_UNEXPECTED_ERROR, with one message; when the parser's error carries
\* a position mark the message names the 1-based line and column of the
\* mark (and the annotation is anchored there), and when it carries none
\* the message names no line.
C3_MalformedDocument ==
    (pc = "done" /\ Malformed)
      => /\ exit_code = EXIT_YAML_PARSE_ERROR
         /\ exit_code \notin {EXIT_VALIDATION_ERROR, EXIT_UNEXPECTED_ERROR}
         /\ Len(out) = 1
         /\ found = <<>>
         /\ IF yaml_file.kind = "marked_error"
            THEN /\ out[1].msg_line = yaml_file.line + 1
                 /\ out[1].msg_col = yaml_file.column + 1
                 /\ out[1].msg_line > 0
                 /\ argv.fmt = "gha" => /\ out[1].line = yaml_file.line + 1
                                        /\ out[1].col = yaml_file.column + 1
            ELSE out[1].msg_line = 0

\* test_validate_yaml_bad_syntax: the unterminated sequence, whose error is
\* marked on the second line
C3_Witness ==
    /\ pc = "done"
    /\ schema_file.schema = FixtureSchema
    /\ yaml_file = YamlFile("marked_error", NullNode, 1, 0)
    /\ argv.quiet
    /\ Len(out) = 1
    /\ out[1].msg_line = 2
    /\ exit_code = EXIT_YAML_PARSE_ERROR

\* no candidate of the run is a file
NoCandidate ==
    \A i \in 1..Len(candidates(argv.schema, env_schema)) : fs[i] # "file"

\* C4: when no schema candidate is a file, the run ends with
\* EXIT_SCHEMA_ERROR after one message that lists every candidate path, and
\* neither the schema nor the data file is ever read.
C4_NoSchemaCandidate ==
    (pc = "done" /\ argv.args = "ok" /\ NoCandidate)
      => /\ exit_code = EXIT_SCHEMA_ERROR
         /\ Len(out) = 1
         /\ out[1].text = "Schema file not found. Checked:"
         /\ {"data/schema.json", "scripts/schema.json", "schema.json"}
              \subseteq Range(out[1].paths)
         /\ argv.schema # "" => argv.schema \in Range(out[1].paths)
         /\ env_schema # "" => env_schema \in Range(out[1].paths)
         /\ schema_path = ""
         /\ schema_file.kind = NotRead
         /\ yaml_file.kind = NotRead
         /\ "load_yaml" \notin Range(steps)

\* the override names a directory, SCHEMA_PATH is unset, no schema.json
C4_Witness ==
    /\ pc = "done"
    /\ argv.args = "ok"
    /\ argv.schema = "cli.json"
    /\ env_schema = ""
    /\ fs[1] = "dir"
    /\ NoCandidate
    /\ Len(out) = 1
    /\ Len(out[1].paths) = 4
    /\ exit_code = EXIT_SCHEMA_ERROR

\* what is at a path the run may try
KindAt(path) ==
    LET cands == candidates(argv.schema, env_schema)
    IN IF \E i \in 1..Len(cands) : cands[i] = path
       THEN fs[CHOOSE i \in 1..Len(cands) : cands[i] = path]
       ELSE "absent"

\* the five places in their priority order; "" for one not given
Priority ==
    <<argv.schema, env_schema, "data/schema.json", "scripts/schema.json",
      "schema.json">>

\* C5: the resolved schema path is the first of: the -s path, SCHEMA_PATH,
\* schema.json beside the data file, beside the script, in the current
\* directory, that is a file; a later one is taken only if every earlier
\* one is not given, absent or not a file.
C5_FirstExistingCandidate ==
    (pc \in {"load_schema", "load_yaml", "validate", "done"}
       /\ schema_path # "")
      => \E i \in 1..Len(Priority) :
            /\ schema_path = Priority[i]
            /\ KindAt(Priority[i]) = "file"
            /\ \A j \in 1..(i - 1) :
                  Priority[j] = "" \/ KindAt(Priority[j]) # "file"

\* the override is a directory, SCHEMA_PATH names no file, there is no
\* schema.json beside the data file but one beside the script and one in
\* the current directory: the one beside the script is taken
C5_Witness ==
    /\ pc = "load_schema"
    /\ argv.schema = "cli.json"
    /\ env_schema = "env.json"
    /\ fs = <<"dir", "absent", "absent", "file", "file">>
    /\ schema_path = "scripts/schema.json"

\* the steps of a run in their order
StepOrder ==
    <<"parse_args", "resolve_schema_path", "load_schema", "load_yaml",
      "validate">>

SchemaFailed ==
    schema_file.kind \in {"unreadable", "bad_json", "bad_schema", "undecodable"}
DocumentFailed ==
    yaml_file.kind \in {"missing", "unreadable", "marked_error", "unmarked_error"}

\* C6: the steps of a run are taken in the order schema load, document
\* load, validation; a schema that fails to load ends the run with
\* EXIT_SCHEMA_ERROR before the document is read, whatever the document is;
\* a document that is missing, unreadable or malformed ends it with
\* EXIT_YAML_PARSE_ERROR before any validation; neither reports a finding.
C6_LoadersShortCircuit ==
    /\ steps = SubSeq(StepOrder, 1, Len(steps))
    /\ (pc = "done" /\ SchemaFailed)
         => /\ exit_code = EXIT_SCHEMA_ERROR
            /\ steps = SubSeq(StepOrder, 1, 3)
            /\ yaml_file.kind = NotRead
            /\ Len(out) = 1
            /\ out[1].text = "Schema load error:"
            /\ found = <<>> /\ errors = <<>>
            /\ FindingLines(out) = <<>>
    /\ (pc = "done" /\ DocumentFailed)
         => /\ exit_code = EXIT_YAML_PARSE_ERROR
            /\ steps = SubSeq(StepOrder, 1, 4)
            /\ ~SchemaFailed
            /\ Len(out) = 1
            /\ found = <<>> /\ errors = <<>>
            /\ FindingLines(out) = <<>>
    /\ pc = "done" => exit_code >= 0
    /\ pc # "done" => exit_code < 0 /\ out = <<>>

\* a schema file that is not JSON, reported as an annotation
C6_Witness ==
    /\ pc = "done"
    /\ schema_file.kind = "bad_json"
    /\ argv.fmt = "gha"
    /\ Len(out) = 1
    /\ out[1].kind = "gha_error"
    /\ out[1].file = schema_path
    /\ exit_code = EXIT_SCHEMA_ERROR

\* How a run ended, told from what it was given and what it found and not
\* from its exit status.
Outcome ==
    CASE argv.args = "bad" -> "bad_arguments"
      [] argv.args = "help" -> "help"
      [] NoCandidate \/ SchemaFailed -> "schema_error"
      [] DocumentFailed -> "document_error"
      [] yaml_file.kind = "undecodable" -> "unexpected_error"
      [] schema_file.kind = "unresolvable_ref" -> "unexpected_error"
      [] found = <<>> -> "success"
      [] OTHER -> "findings"

ExitCodes ==
    {EXIT_SUCCESS, EXIT_BAD_ARGS, EXIT_SCHEMA_ERROR, EXIT_YAML_PARSE_ERROR,
     EXIT_VALIDATION_ERROR, EXIT_UNEXPECTED_ERROR}

ExitCodeOf(outcome) ==
    CASE outcome = "success" -> EXIT_SUCCESS
      [] outcome = "bad_arguments" -> EXIT_BAD_ARGS
      [] outcome = "schema_error" -> EXIT_SCHEMA_ERROR
      [] outcome = "document_error" -> EXIT_YAML_PARSE_ERROR
      [] outcome = "findings" -> EXIT_VALIDATION_ERROR
      [] outcome = "unexpected_error" -> EXIT_UNEXPECTED_ERROR

\* C7, as claimed: a run ends with one of the six codes, with 0 only after a
\* validation without findings and 5 only after one with findings.
C7_ZeroOnlyAfterValidation ==
    pc = "done"
      => /\ exit_code \in ExitCodes
         /\ exit_code = EXIT_SUCCESS => Validated /\ found = <<>>
         /\ exit_code = EXIT_VALIDATION_ERROR => Validated /\ found # <<>>

\* C7, amended: the six codes are 0, 2, 3, 4, 5, 6, pairwise distinct; a
\* run ends with the code of the one terminal state it reached; 5 is
\* returned exactly after a validation with findings; 0 is returned after a
\* validation without findings and otherwise only when the command line
\* asked for the help text, which argparse prints before exiting with 0.
C7_ExitCodes ==
    /\ <<EXIT_SUCCESS, EXIT_BAD_ARGS, EXIT_SCHEMA_ERROR, EXIT_YAML_PARSE_ERROR,
         EXIT_VALIDATION_ERROR, EXIT_UNEXPECTED_ERROR>> = <<0, 2, 3, 4, 5, 6>>
    /\ Cardinality(ExitCodes) = 6
    /\ pc = "done"
         => /\ exit_code \in ExitCodes
            /\ Outcome # "help" => exit_code = ExitCodeOf(Outcome)
            /\ exit_code = EXIT_SUCCESS
                 => (Validated /\ found = <<>>) \/ argv.args = "help"
            /\ (Validated /\ found = <<>>) => exit_code = EXIT_SUCCESS
            /\ exit_code = EXIT_VALIDATION_ERROR
                 <=> (Validated /\ found # <<>>)

\* a schema whose reference resolves nowhere: the walk raises
C7_Witness ==
    /\ pc = "done"
    /\ schema_file.kind = "unresolvable_ref"
    /\ yaml_file.kind = "ok"
    /\ Outcome = "unexpected_error"
    /\ exit_code = EXIT_UNEXPECTED_ERROR

Depths(errs) == {Len(e.path) : e \in Range(errs)}

\* C8, as claimed: with --fail-fast a document with three violations has
\* one finding reported, the one with the deepest path of the three.
C8_FailFastDeepest ==
    (Validated /\ argv.fail_fast /\ Len(found) = 3)
      => /\ Len(errors) = 1
         /\ errors[1] \in Range(found)
         /\ \A d \in Depths(found) : d <= Len(errors[1].path)
         /\ exit_code = EXIT_VALIDATION_ERROR

\* C8, amended: with --fail-fast a document with violations (three, or any
\* other number) has exactly one finding reported; it is one of those
\* found and has the shallowest path among them, no finding found has a
\* shorter one; the report states one finding and the run exits with
\* EXIT_VALIDATION_ERROR.
C8_FailFastShallowest ==
    (Validated /\ argv.fail_fast /\ found # <<>>)
      => /\ Len(errors) = 1
         /\ errors[1] \in Range(found)
         /\ \A d \in Depths(found) : Len(errors[1].path) <= d
         /\ Len(FindingLines(out)) = 1
         /\ \A l \in Range(CountLines(out)) : l.n = 1
         /\ exit_code = EXIT_VALIDATION_ERROR

\* a directory without a name whose one entry has no name and an unknown
\* platform: violations at depths 0, 2 and 3, the one at the root reported
C8_Witness ==
    /\ Validated
    /\ argv.fail_fast
    /\ Len(found) = 3
    /\ Depths(found) = {0, 2, 3}
    /\ Len(errors) = 1
    /\ errors[1].path = <<>>
    /\ errors[1].validator = "required"

\* how many times e occurs in a sequence
Count(seq, e) == Cardinality({i \in 1..Len(seq) : seq[i] = e})

\* C9: without --fail-fast every finding of the walk is reported, as many
\* times as the walk yields it, and nothing else; the report has one
\* finding line per finding, in the order of the list reported, and the
\* count it states (text header, JSON errorCount, annotation summary) is
\* the number of finding lines.  The count matches with --fail-fast too.
C9_AllFindingsReported ==
    (Validated /\ found # <<>>)
      => /\ ~argv.fail_fast
              => /\ Len(errors) = Len(found)
                 /\ \A e \in Range(found) \cup Range(errors) :
                       Count(errors, e) = Count(found, e)
         /\ Len(FindingLines(out)) = Len(errors)
         /\ \A i \in 1..Len(errors) :
               /\ FindingLines(out)[i].message = errors[i].message
               /\ FindingLines(out)[i].path_str = path_to_str(errors[i].path)
               /\ FindingLines(out)[i].validator = errors[i].validator
         /\ Len(CountLines(out)) = 1
         /\ CountLines(out)[1].n = Len(FindingLines(out))

\* three findings of three keywords, all listed in the JSON report
C9_Witness ==
    /\ Validated
    /\ ~argv.fail_fast
    /\ argv.fmt = "json"
    /\ Len(found) = 3
    /\ {e.validator : e \in Range(found)} = {"required", "type", "enum"}
    /\ Len(FindingLines(out)) = 3
    /\ out[1].n = 3

\* the order of a report: by depth, then by message
InReportOrder(a, b) ==
    \/ Len(a.path) < Len(b.path)
    \/ /\ Len(a.path) = Len(b.path)
       /\ ~StrLess(b.message, a.message)

\* C10: the findings are reported in ascending depth of their document
\* path and, at equal depth, in ascending order of their messages, the
\* finding lines of the report in that same order; a second run of the same
\* command line on the same files prints the same lines and ends with the
\* same exit status.
C10_DeterministicOrder ==
    /\ \A i, j \in 1..Len(errors) : i < j => InReportOrder(errors[i], errors[j])
    /\ (Validated /\ found # <<>>)
         => \A i \in 1..Len(errors) :
               FindingLines(out)[i].message = errors[i].message
    /\ (pc = "done" /\ runs > 1)
         => /\ out = prev[1].out
            /\ exit_code = prev[1].exit_code

\* a second run whose walk yielded a deeper finding before a shallower one
\* and, at one depth, a greater message before a smaller one
C10_Witness ==
    /\ pc = "done"
    /\ runs > 1
    /\ Validated
    /\ Len(found) > 2
    /\ errors # found
    /\ \E i \in 1..(Len(found) - 1) :
          Len(found[i].path) > Len(found[i + 1].path)
    /\ \E i \in 1..(Len(found) - 1) :
          /\ Len(found[i].path) = Len(found[i + 1].path)
          /\ StrLess(found[i + 1].message, found[i].message)
    /\ out = prev[1].out

(***************************************************************************)
(* C11.                                                                    *)
(***************************************************************************)
\* the run walked the schema and found nothing
Succeeded == Validated /\ found = <<>>

\* C11: --quiet suppresses the success message and nothing else.  Of two
\* runs on the same files that differ in --quiet only, both end with the
\* same exit status; when the walk found nothing the quiet one prints
\* nothing and the other prints one line; for every other outcome (bad
\* arguments, schema error, document error, findings, unexpected error)
\* both print the same lines.
C11_QuietOnlySilencesSuccess ==
    (pc = "done" /\ runs = 2) =>
        /\ exit_code = prev[1].exit_code
        /\ Succeeded =>
              /\ exit_code = EXIT_SUCCESS
              /\ (IF argv.quiet THEN out ELSE prev[1].out) = <<>>
              /\ Len(IF argv.quiet THEN prev[1].out ELSE out) = 1
        /\ ~Succeeded => out = prev[1].out

\* a valid directory validated without --quiet and then with it
C11_Witness ==
    /\ pc = "done"
    /\ runs = 2
    /\ Succeeded
    /\ argv.quiet
    /\ out = <<>>
    /\ prev[1].out # <<>>
    /\ yaml_file.data.k = "obj"

(***************************************************************************)
(* C12.                                                                    *)
(***************************************************************************)
\* An annotation text is one line that GitHub reads back: no line feed or
\* carriage return in it, and every "%" starts "%25", "%0D" or "%0A".
WellEscaped(body) ==
    \A i \in 1..Len(body) :
        /\ body[i] \notin {10, 13}
        /\ body[i] = 37 =>
              /\ i + 2 <= Len(body)
              /\ <<body[i + 1], body[i + 2]>>
                    \in {<<50, 53>>, <<48, 68>>, <<48, 65>>}

\* what GitHub reads back from a well-escaped text
RECURSIVE Unescape(_)
Unescape(body) ==
    IF body = <<>> THEN <<>>
    ELSE IF body[1] = 37
         THEN <<(CASE <<body[2], body[3]>> = <<50, 53>> -> 37
                   [] <<body[2], body[3]>> = <<48, 68>> -> 13
                   [] OTHER -> 10)>>
              \o Unescape(SubSeq(body, 4, Len(body)))
    ELSE <<body[1]>> \o Unescape(Tail(body))

\* line and column of a finding as an annotation carries them
AnnotatedAt(data, err) ==
    LET pos == get_position_from_path(data, err.path)
    IN IF pos = <<0, 0>> THEN <<1, 1>> ELSE pos

\* C12: in the annotation format a validation with N >= 1 reported
\* findings prints N + 1 lines: one annotation per finding, in the order
\* reported, each with the data file, a line and a column (1 and 1 when the
\* position is unknown) and a well-escaped text that reads back as the
\* finding's message, path and keyword; then one summary line stating N.
\* A validation without findings prints no annotation, and one plain line
\* unless --quiet is given.
C12_AnnotationLines ==
    (Validated /\ argv.fmt = "gha") =>
        IF found # <<>>
        THEN /\ Len(errors) >= 1
             /\ Len(out) = Len(errors) + 1
             /\ \A i \in 1..Len(errors) :
                   /\ out[i].kind = "gha_error"
                   /\ out[i].file = file_path
                   /\ <<out[i].line, out[i].col>>
                        = AnnotatedAt(yaml_file.data, errors[i])
                   /\ out[i].line >= 1 /\ out[i].col >= 1
                   /\ WellEscaped(out[i].body)
                   /\ Unescape(out[i].body) = gha_message(errors[i])
             /\ out[Len(out)].kind = "gha_summary"
             /\ out[Len(out)].n = Len(errors)
        ELSE /\ \A i \in 1..Len(out) : out[i].kind # "gha_error"
             /\ Len(out) = IF argv.quiet THEN 0 ELSE 1
             /\ \A i \in 1..Len(out) : out[i].kind = "success"

\* two annotations and the summary, one of the texts with an escaped "%"
C12_Witness ==
    /\ Validated
    /\ argv.fmt = "gha"
    /\ Len(errors) = 2
    /\ Len(out) = 3
    /\ out[3].kind = "gha_summary"
    /\ out[3].n = 2
    /\ \E i \in 1..2 : out[i].body # gha_message(errors[i])

(***************************************************************************)
(* C13, C14.                                                               *)
(***************************************************************************)
\* the value of a key of a mapping, NullNode where there is none
Field(node, key) ==
    IF node.k = "obj" /\ KeyIndex(node, key) # 0
    THEN node.vals[KeyIndex(node, key)]
    ELSE NullNode

\* the entries of a directory
GroupsOf(doc) ==
    IF Field(doc, "groups").k = "arr" THEN Field(doc, "groups").vals ELSE <<>>

\* entry j has the name and the URL of an earlier entry i
Duplicates(doc, i, j) ==
    /\ i < j
    /\ Field(GroupsOf(doc)[i], "url").k = "str"
    /\ Field(GroupsOf(doc)[i], "name") = Field(GroupsOf(doc)[j], "name")
    /\ Field(GroupsOf(doc)[i], "url") = Field(GroupsOf(doc)[j], "url")

\* the findings at or below entry j (0-based index j - 1)
FindingsOfEntry(errs, j) ==
    {n \in 1..Len(errs) :
        /\ Len(errs[n].path) >= 2
        /\ errs[n].path[1] = Key("groups")
        /\ errs[n].path[2] = Idx(j - 1)}

\* C13: a validated directory has one finding for every entry that has the
\* name and the URL of an earlier entry, none for an entry that satisfies
\* the schema and duplicates no other, and does not exit with
\* EXIT_SUCCESS when there is a duplicate.
C13_DuplicatesReported ==
    (Validated /\ yaml_file.data \in DomainDocuments) =>
        \A j \in 1..Len(GroupsOf(yaml_file.data)) :
            IF \E i \in 1..Len(GroupsOf(yaml_file.data)) :
                  Duplicates(yaml_file.data, i, j)
            THEN /\ Cardinality(FindingsOfEntry(found, j)) = 1
                 /\ exit_code # EXIT_SUCCESS
            ELSE FindingsOfEntry(found, j) = {}

\* ISO 3166-1 alpha-2, as far as the documents go: TH is Thailand, no
\* country has ZZ
CountryCodes == {"TH"}

\* the country codes of the locations of an entry
CountryCodesOf(entry) ==
    IF Field(entry, "locations").k # "arr" THEN {}
    ELSE {Field(loc, "country_id").a :
            loc \in {l \in Range(Field(entry, "locations").vals) :
                        Field(l, "country_id").k = "str"}}

\* C14: a validated directory has a finding for every entry with a
\* location whose country code is in no ISO 3166-1 alpha-2 table, and then
\* does not exit with EXIT_SUCCESS; a located entry with a real code has
\* none.
C14_CountryCodeChecked ==
    (Validated /\ yaml_file.data \in DomainDocuments) =>
        \A j \in 1..Len(GroupsOf(yaml_file.data)) :
            LET codes == CountryCodesOf(GroupsOf(yaml_file.data)[j])
            IN /\ ~(codes \subseteq CountryCodes) =>
                    /\ FindingsOfEntry(found, j) # {}
                    /\ exit_code # EXIT_SUCCESS
               /\ (codes # {} /\ codes \subseteq CountryCodes) =>
                    FindingsOfEntry(found, j) = {}

(***************************************************************************)
(* C15.                                                                    *)
(***************************************************************************)
\* The 1-based line and column the loader recorded for the entry the last
\* element of path names in its container: the key of a mapping, the item
\* of a sequence; <<0, 0>> for an empty path or one that does not resolve.
RECURSIVE RecordedPosition(_, _, _)
RecordedPosition(container, start, path) ==
    IF path = <<>> THEN <<0, 0>>
    ELSE LET j == ChildIndex(container, Head(path))
         IN IF j = 0 THEN <<0, 0>>
            ELSE IF Len(path) > 1
                 THEN RecordedPosition(container.vals[j],
                                       ChildStart(container, start, j),
                                       Tail(path))
            ELSE IF container.k = "arr"
                 THEN <<ChildStart(container, start, j)[1] + 1,
                        ChildStart(container, start, j)[2] + 1>>
            ELSE <<start[1] + HeightUpTo(container, j - 1) + 1, start[2] + 1>>

\* C15: the position a report gives a finding is the 1-based line and
\* column recorded for the entry its path ends at, and unknown (no line,
\* no column) for a finding at the root of the document.
C15_PositionOfEntry ==
    (Validated /\ argv.fmt # "gha") =>
        \A i \in 1..Len(FindingLines(out)) :
            <<FindingLines(out)[i].line, FindingLines(out)[i].col>>
              = RecordedPosition(yaml_file.data, <<0, 0>>, errors[i].path)

(***************************************************************************)
(* C16.                                                                    *)
(***************************************************************************)
\* A failure no class of the taxonomy anticipates was raised: bytes that
\* are not UTF-8 in the schema file or in the data file, a schema whose
\* walk raises.
UnanticipatedAt ==
    IF "load_schema" \in Range(steps) /\ schema_file.kind = "undecodable"
    THEN "load_schema"
    ELSE IF "load_yaml" \in Range(steps) /\ yaml_file.kind = "undecodable"
    THEN "load_yaml"
    ELSE IF "validate" \in Range(steps) /\ schema_file.kind = "unresolvable_ref"
    THEN "validate"
    ELSE ""

\* C16, as claimed: a failure outside the taxonomy, at whatever step it is
\* raised, ends the run with EXIT_UNEXPECTED_ERROR after one message.
C16_UnexpectedAtAnyStep ==
    (pc = "done" /\ UnanticipatedAt # "") =>
        /\ exit_code = EXIT_UNEXPECTED_ERROR
        /\ Len(out) = 1

\* C16, amended: a failure outside the taxonomy raised while the data file
\* is read or while the schema is walked over the document ends the run
\* with EXIT_UNEXPECTED_ERROR after one message that names the step and
\* carries the error, with no finding reported; one raised while the
\* schema is loaded is reported as a schema load error and ends the run
\* with EXIT_SCHEMA_ERROR before the data file is read.  No other run ends
\* with EXIT_UNEXPECTED_ERROR.
C16_UnexpectedErrors ==
    pc = "done" =>
        /\ UnanticipatedAt \in {"load_yaml", "validate"} =>
              /\ exit_code = EXIT_UNEXPECTED_ERROR
              /\ Len(out) = 1
              /\ out[1].kind = IF argv.fmt = "gha" THEN "gha_error" ELSE "message"
              /\ out[1].text = (IF UnanticipatedAt = "load_yaml"
                                THEN "Unexpected error while reading YAML:"
                                ELSE "Unexpected error during validation:")
              /\ out[1].detail = (IF UnanticipatedAt = "load_yaml"
                                  THEN "UnicodeDecodeError" ELSE "Unresolvable")
              /\ found = <<>> /\ errors = <<>>
        /\ UnanticipatedAt = "load_schema" =>
              /\ exit_code = EXIT_SCHEMA_ERROR
              /\ Len(out) = 1
              /\ out[1].text = "Schema load error:"
              /\ out[1].detail = "UnicodeDecodeError"
              /\ yaml_file.kind = NotRead
        /\ exit_code = EXIT_UNEXPECTED_ERROR
              => UnanticipatedAt \in {"load_yaml", "validate"}

\* a data file that is not UTF-8, read after a schema that loaded
C16_Witness ==
    /\ pc = "done"
    /\ schema_file.kind = "ok"
    /\ UnanticipatedAt = "load_yaml"
    /\ exit_code = EXIT_UNEXPECTED_ERROR
    /\ out[1].detail = "UnicodeDecodeError"

(***************************************************************************)
(* C17.                                                                    *)
(***************************************************************************)
\* the headers of the issue form and the key each is stored under
Headers ==
    <<"Group Name", "Platform", "URL", "Continent", "Country Code", "City",
      "Language Code", "Commercial", "Tags", "Additional Information">>
FieldKeys ==
    <<"name", "platform", "url", "continent", "country_id", "city",
      "language_id", "commercial", "tags", "description">>

\* the lines of a body that are "### <header>"
MarkerLines(body, header) ==
    {i \in 1..Len(split(body, 10)) :
        LET line == split(body, 10)[i]
        IN /\ Len(line) > 4
           /\ SubSeq(line, 1, 3) = <<35, 35, 35>>
           /\ IsSpace(line[4])
           /\ strip(SubSeq(line, 4, Len(line))) = Str[header]}

\* the stripped text between marker line i and the next line that starts
\* with a marker
ContentAfter(body, i) ==
    LET lines == split(body, 10)
        IsMarker(j) == /\ Len(lines[j]) >= 3
                       /\ SubSeq(lines[j], 1, 3) = <<35, 35, 35>>
                       /\ (Len(lines[j]) > 3 => IsSpace(lines[j][4]))
                       /\ (Len(lines[j]) = 3 => j < Len(lines))
        stop == IF \E j \in (i + 1)..Len(lines) : IsMarker(j)
                THEN CHOOSE j \in (i + 1)..Len(lines) :
                        IsMarker(j) /\ \A k \in (i + 1)..(j - 1) : ~IsMarker(k)
                ELSE Len(lines) + 1
    IN strip(join(<<10>>, SubSeq(lines, i + 1, stop - 1)))

\* what the claim says a section's content is stored as
ClaimedValue(key, text) ==
    IF text = Str["_No response_"]
    THEN CASE key = "tags" -> PyList(<<>>)
           [] key = "commercial" -> PyBool(FALSE)
           [] OTHER -> PyNone
    ELSE CASE key \in {"platform", "language_id"} -> PyStr(lower(text))
           [] key = "country_id" -> PyStr(upper(text))
           [] key = "tags" -> PyList(tags_of(text))
           [] key = "commercial" -> PyBool(Contains(text, Str["[x]"]))
           [] OTHER -> PyStr(text)

\* C17, as claimed: the dictionary has a key only for a recognised
\* "### <Header>" line of the body, and its value is the stripped content
\* of that section: lower-cased for platform and language code, upper-cased
\* for country code, None for "_No response_" (an empty list for Tags,
\* False for Commercial).
C17_KeysOfMarkedSections ==
    pc = "done" =>
        \A n \in 1..Len(Headers) :
            LET marked == MarkerLines(issue_body, Headers[n])
            IN /\ FieldKeys[n] \in DOMAIN parsed_data => marked # {}
               /\ marked # {} =>
                    /\ FieldKeys[n] \in DOMAIN parsed_data
                    /\ \E i \in marked :
                          parsed_data[FieldKeys[n]]
                            = ClaimedValue(FieldKeys[n],
                                           ContentAfter(issue_body, i))

\* the sections of a body that are not blank and have that header
SectionsOf(body, header) ==
    {k \in 1..Len(sections(body)) :
        /\ strip(sections(body)[k]) # <<>>
        /\ header_of(sections(body)[k]) = Str[header]}

\* C17, amended: the sections of a body are the pieces of text between
\* its "###" markers (three "#" at the start of a line, then white space,
\* line feeds included), the text before the first marker among them; the
\* header of a section is its first line that is not blank, stripped, its
\* content the rest, stripped.  The dictionary has exactly the keys of the
\* recognised headers that some section has, each with the value of the
\* last such section: the content for name, url, continent, city and
\* description, an empty one included; the content lower-cased for
\* platform and language code and upper-cased for country code, None when
\* it is empty; the stripped non-empty comma-separated parts for Tags;
\* whether the content has "[x]" for Commercial; and for the content
\* "_No response_" None, an empty list for Tags, False for Commercial.
C17_KeysOfSections ==
    pc = "done" =>
        /\ DOMAIN parsed_data \subseteq Range(FieldKeys)
        /\ \A n \in 1..Len(Headers) :
             LET secs == SectionsOf(issue_body, Headers[n])
                 key == FieldKeys[n]
             IN /\ key \in DOMAIN parsed_data <=> secs # {}
                /\ secs # {} =>
                     LET last == CHOOSE k \in secs : \A j \in secs : j <= k
                         text == content_of(sections(issue_body)[last])
                     IN parsed_data[key]
                          = IF text = <<>>
                                 /\ key \in {"platform", "country_id",
                                             "language_id"}
                            THEN PyNone
                            ELSE ClaimedValue(key, text)

\* test_parse_issue_body_basic: name, platform lower-cased and stripped,
\* URL
C17_Witness ==
    /\ pc = "done"
    /\ issue_body = BodyOf(<<<<"### Group Name", "Test", "">>,
                             <<"### Platform", " Telegram ", "">>,
                             <<"### URL", "https://t.me/a", "">>>>)
    /\ parsed_data = [name |-> PyStr(Str["Test"]),
                      platform |-> PyStr(Str["telegram"]),
                      url |-> PyStr(Str["https://t.me/a"])]

(***************************************************************************)
(* C18.                                                                    *)
(***************************************************************************)
\* the keys of a map, and that none is there twice
KeySet(map) == Range(map.keys)
NoKeyTwice(map) ==
    \A i, j \in 1..Len(map.keys) : map.keys[i] = map.keys[j] => i = j

\* the value counts as true: not None, "", False or []
NonEmpty(parsed, key) ==
    /\ key \in DOMAIN parsed
    /\ parsed[key] \notin {PyNone, PyStr(<<>>), PyBool(FALSE), PyList(<<>>)}

\* C18: the entry always has name, platform and url, in that order and
\* first, None for one the dictionary lacks; it has "locations" exactly
\* when continent, country_id or city is non-empty, a list of one location
\* that holds the non-empty ones of the three and nothing else; it has
\* language_id, tags and description exactly when their value counts as
\* true, with that value; it has "commercial" exactly when that value
\* counts as true, and then True; it has no other key.
C18_EntryFields ==
    pc = "done" =>
        /\ new_group.t = "map"
        /\ NoKeyTwice(new_group)
        /\ SubSeq(new_group.keys, 1, 3) = <<"name", "platform", "url">>
        /\ \A key \in {"name", "platform", "url"} :
              MapGet(new_group, key)
                = IF key \in DOMAIN parsed_data THEN parsed_data[key] ELSE PyNone
        /\ KeySet(new_group) \subseteq
              {"name", "platform", "url", "locations", "language_id",
               "commercial", "tags", "description"}
        /\ "locations" \in KeySet(new_group)
              <=> \E key \in {"continent", "country_id", "city"} :
                     NonEmpty(parsed_data, key)
        /\ "locations" \in KeySet(new_group) =>
              LET locations == MapGet(new_group, "locations")
              IN /\ locations.t = "list"
                 /\ Len(locations.l) = 1
                 /\ locations.l[1].t = "map"
                 /\ NoKeyTwice(locations.l[1])
                 /\ KeySet(locations.l[1])
                      = {key \in {"continent", "country_id", "city"} :
                           NonEmpty(parsed_data, key)}
                 /\ \A key \in KeySet(locations.l[1]) :
                       MapGet(locations.l[1], key) = parsed_data[key]
        /\ \A key \in {"language_id", "tags", "description"} :
              /\ key \in KeySet(new_group) <=> NonEmpty(parsed_data, key)
              /\ key \in KeySet(new_group)
                   => MapGet(new_group, key) = parsed_data[key]
        /\ "commercial" \in KeySet(new_group)
              <=> NonEmpty(parsed_data, "commercial")
        /\ "commercial" \in KeySet(new_group)
              => MapGet(new_group, "commercial") = PyBool(TRUE)

\* test_create_group_entry: a continent and a country, commercial False
\* left out, the tags kept
C18_Witness ==
    /\ pc = "done"
    /\ parsed_data = [name |-> PyStr(Str["Test"]),
                      platform |-> PyStr(Str["telegram"]),
                      url |-> PyStr(Str["https://t.me/a"]),
                      continent |-> PyStr(Str["Asia"]),
                      country_id |-> PyStr(Str["TH"]),
                      language_id |-> PyNone,
                      commercial |-> PyBool(FALSE),
                      tags |-> PyList(<<PyStr(Str["a"])>>)]
    /\ new_group.keys = <<"name", "platform", "url", "locations", "tags">>
    /\ MapGet(new_group, "locations").l[1].keys = <<"continent", "country_id">>
    /\ "commercial" \notin KeySet(new_group)

(***************************************************************************)
(* C20.                                                                    *)
(***************************************************************************)
\* the runs so far that ended with status 0, and the entries they built
Successes == SelectSeq(history, LAMBDA r : r.status = 0)
Added == [i \in 1..Len(Successes) |-> Successes[i].new_group]

\* the "groups" list of a data file, empty where the file has none
GroupsIn(file) ==
    IF "groups" \in Range(construct(file.doc).keys)
    THEN MapGet(construct(file.doc), "groups").l
    ELSE <<>>

\* the top-level keys of a data file but "groups", in their order, and
\* their values
OtherKeys(file) ==
    SelectSeq(construct(file.doc).keys, LAMBDA key : key # "groups")
OtherValues(file) ==
    [i \in 1..Len(OtherKeys(file)) |->
       MapGet(construct(file.doc), OtherKeys(file)[i])]

\* the body is unset or empty, or no section of it gives a name, or none
\* gives a URL
Incomplete(body) ==
    \/ body = <<>>
    \/ \E n \in {1, 3} :
          \/ SectionsOf(body, Headers[n]) = {}
          \/ LET last == CHOOSE k \in SectionsOf(body, Headers[n]) :
                            \A j \in SectionsOf(body, Headers[n]) : j <= k
             IN content_of(sections(body)[last]) \in {<<>>, Str["_No response_"]}

\* C20: after any number of runs on one data file, the file is the one
\* the runs started from if none of them ended with status 0; otherwise
\* its "groups" list is the list the runs started from (empty if there was
\* none) followed by the entries of the runs that ended with status 0, one
\* each, in the order of the runs, and its other top-level keys are those
\* it started with, in their order, with their values.  A run whose body
\* is unset or lacks a name or a URL ends with status 1, and no run that
\* ends with another status than 0 changes the file.
C20_GroupsGrowByOne ==
    pc = "main" =>
        /\ history # <<>> =>
              IF Successes = <<>> THEN data_file = history[1].before
              ELSE /\ data_file.kind = "file"
                   /\ construct(data_file.doc).t = "map"
                   /\ GroupsIn(data_file) = GroupsIn(history[1].before) \o Added
                   /\ OtherKeys(data_file) = OtherKeys(history[1].before)
                   /\ OtherValues(data_file) = OtherValues(history[1].before)
        /\ \A i \in 1..Len(history) :
              /\ Incomplete(history[i].body) =>
                    history[i].status = 1 /\ history[i].after = history[i].before
              /\ history[i].status # 0 => history[i].after = history[i].before
              /\ history[i].status \in {0, 1}
              /\ history[i].before
                   = IF i = 1 THEN history[1].before ELSE history[i - 1].after
        /\ history # <<>> => data_file = history[Len(history)].after

\* two entries added to a file that had one: the first with the name
\* '123' and no platform, the second commercial, in the order of the runs
C20_Witness ==
    /\ pc = "main"
    /\ Len(history) = 2
    /\ Len(Successes) = 2
    /\ Len(GroupsIn(history[1].before)) = 1
    /\ Len(GroupsIn(data_file)) = 3
    /\ MapGet(GroupsIn(data_file)[2], "name") = PyStr(Str["123"])
    /\ MapGet(GroupsIn(data_file)[2], "platform") = PyNone
    /\ MapGet(GroupsIn(data_file)[3], "commercial") = PyBool(TRUE)
    /\ OtherKeys(data_file) = <<"version">>

(***************************************************************************)
(* C19: generate_markdown lists each group under the most specific section *)
(* of each of its locations.  A group with no or empty locations is linked *)
(* in the World section and in no other section; a location with only a    *)
(* continent links the group directly under that continent's heading; a    *)
(* location with a country_id and no city links it under that country's    *)
(* heading inside the continent; a location with a city links it under     *)
(* that city's subsection; every continent of the directory has exactly    *)
(* one entry in the table of contents and one heading in the body.         *)
(***************************************************************************)
\* the last line of a kind among lines from..to of the page, 0 if none
LastOf(page, kind, from, to) ==
    LET at == {j \in from..to : page[j].kind = kind}
    IN IF at = {} THEN 0 ELSE CHOOSE j \in at : \A k \in at : k <= j

\* the headings a line of the page is under: section, country, city
SectionOf(page, i) ==
    LET h1 == LastOf(page, "h1", 1, i)
        h2 == LastOf(page, "h2", h1 + 1, i)
        h3 == LastOf(page, "h3", (IF h2 = 0 THEN h1 ELSE h2) + 1, i)
        text(j) == IF j = 0 THEN "" ELSE page[j].text
    IN <<text(h1), text(h2), text(h3)>>

\* the sections in which a group is linked
LinkedIn(page, name) ==
    {SectionOf(page, i) :
        i \in {j \in 1..Len(page) :
                  page[j].kind = "group" /\ page[j].text = name}}

GroupsOfDirectory ==
    IF "groups" \in DOMAIN directory THEN Range(directory["groups"]) ELSE {}

LocationsOfGroup(g) ==
    IF "locations" \in DOMAIN g THEN Range(g["locations"]) ELSE {}

Generated == pc = "done" /\ markdown # <<>>

C19_MostSpecificSection ==
    Generated =>
       /\ \A g \in GroupsOfDirectory :
             /\ LocationsOfGroup(g) = {} =>
                   LinkedIn(markdown, g["name"]) = {<<"World", "", "">>}
             /\ \A l \in LocationsOfGroup(g) :
                   /\ DOMAIN l = {"continent"} =>
                         <<l["continent"], "", "">>
                             \in LinkedIn(markdown, g["name"])
                   /\ ("country_id" \in DOMAIN l /\ "city" \notin DOMAIN l) =>
                         \E s \in LinkedIn(markdown, g["name"]) :
                            /\ s[2] = get_country_name(l["country_id"])
                            /\ s[3] = ""
                            /\ "continent" \in DOMAIN l => s[1] = l["continent"]
                   /\ "city" \in DOMAIN l =>
                         \E s \in LinkedIn(markdown, g["name"]) :
                            s[3] = l["city"]
       /\ \A g \in GroupsOfDirectory : \A l \in LocationsOfGroup(g) :
             "continent" \in DOMAIN l =>
                \A kind \in {"toc_continent", "h1"} :
                   Cardinality({i \in 1..Len(markdown) :
                                   /\ markdown[i].kind = kind
                                   /\ markdown[i].text = l["continent"]}) = 1

\* the errors that apply to the form data: a required field that is None
\* or empty, a URL that is given and has no scheme or no host
Applicable(data) ==
    {e \in {"Group name is required", "Group URL is required",
            "Invalid URL format", "Platform is required",
            "Continent is required"} :
        CASE e = "Group name is required" -> ~Truthy(data["name"])
          [] e = "Group URL is required" -> ~Truthy(data["url"])
          [] e = "Invalid URL format" ->
               /\ Truthy(data["url"])
               /\ \/ urlparse(data["url"].s).raises
                  \/ urlparse(data["url"].s).scheme = <<>>
                  \/ urlparse(data["url"].s).netloc = <<>>
          [] e = "Platform is required" -> ~Truthy(data["platform"])
          [] OTHER -> ~Truthy(data["continent"])}

\* the errors a run reported, on the GitHub output file or printed
Reported(run) ==
    UNION {Range(line.errors) : line \in Range(run.output \o run.printed)}

====
